---------------------------- MODULE Spec2Model ----------------------------
(***************************************************************************)
(* Retrieval-and-ranking pipeline of the query-retrieval service:          *)
(*   DocumentProcessor   (src/src/document_processor.py)  the chunker      *)
(*   EmbeddingSearchLite (src/src/embedding_search_lite.py) lexical index  *)
(*   EmbeddingSearch     (src/src/embedding_search.py)    dense index      *)
(*   ClauseMatcher       (src/src/clause_matcher.py)      the re-ranker    *)
(*                                                                         *)
(* Texts handled by the index backends and the re-ranker are TLA+ strings; *)
(* Python's str operations (lower, in, slicing, the regular expressions)   *)
(* are computed character by character.  Scores are exact rationals        *)
(* <<numerator, denominator>>; Python computes them in binary64, whose     *)
(* rounding is not modelled.  The chunker only looks at the class of each  *)
(* character (newline, other white space, sentence terminator, other), so  *)
(* its texts are run-length encoded sequences of <<class, count>>.         *)
(***************************************************************************)
EXTENDS Integers, Sequences, FiniteSets, TLC

VARIABLES
    op,                 \* the last operation performed
    raised,             \* the exception that operation raised, or "None"
    backend,            \* which index backend this instance is: "lite" or "dense"
    encoder,            \* the embedding function of the dense backend (fixed per run)
    model,              \* EmbeddingSearch.model is loaded
    chunks,             \* self.chunks of the index backend
    index,              \* EmbeddingSearch.index: whether it is set, and its vectors
    passages,           \* the sequence most recently passed to build_index
    query,              \* the query of the last search / match_clauses call
    top_k,              \* the top_k of the last search call
    hits,               \* the value returned by the last search call
    hit_pos,            \* the index positions behind hits (ghost: not program state)
    retrieved_clauses,  \* the list handed to match_clauses
    matched,            \* the value returned by the last match_clauses call
    document,           \* the document handed to the DocumentProcessor
    doc_chunks,         \* the passages the DocumentProcessor produced
    build_called,       \* build_index has been called on the backend (ghost)
    build_raised,       \* what the last build_index call raised (ghost)
    twin,               \* a second, independent instance of the lexical backend
    requests,           \* the /hackrx/run requests in progress, by request id
    _system_initialized, \* the module-level flag of the application
    last_analysis,      \* the value returned by the last _analyze_query call
    response            \* the value returned by the last evaluate_and_respond call

vars == <<op, raised, backend, encoder, model, chunks, index, passages, query, top_k,
          hits, hit_pos, retrieved_clauses, matched, document, doc_chunks,
          build_called, build_raised, twin, requests, _system_initialized,
          last_analysis, response>>

searchVars == <<backend, encoder, model, chunks, index, passages, top_k, hits, hit_pos,
                build_called, build_raised>>
chunkVars == <<document, doc_chunks>>
sessionVars == <<twin, requests, _system_initialized, last_analysis, response>>

-----------------------------------------------------------------------------
(* Exact rational arithmetic standing for Python floats.                   *)

RECURSIVE GCD(_, _)
GCD(a, b) == IF b = 0 THEN a ELSE GCD(b, a % b)

Abs(n) == IF n < 0 THEN -n ELSE n

Rat(n, d) ==
    LET g == GCD(Abs(n), Abs(d))
        s == IF d < 0 THEN -1 ELSE 1
    IN  <<(s * n) \div g, (s * d) \div g>>

RAdd(x, y) == Rat(x[1] * y[2] + y[1] * x[2], x[2] * y[2])
RMul(x, y) == Rat(x[1] * y[1], x[2] * y[2])
RLess(x, y) == x[1] * y[2] < y[1] * x[2]
RLeq(x, y) == x[1] * y[2] <= y[1] * x[2]
RMin(x, y) == IF RLess(y, x) THEN y ELSE x
Zero == <<0, 1>>
One == <<1, 1>>

-----------------------------------------------------------------------------
(* Python str operations.                                                  *)

Ch(s, i) == SubSeq(s, i, i)

UpperAlphabet == "ABCDEFGHIJKLMNOPQRSTUVWXYZ"
LowerAlphabet == "abcdefghijklmnopqrstuvwxyz"
DigitAlphabet == "0123456789"

IsIn(c, alphabet) == \E i \in 1..Len(alphabet) : Ch(alphabet, i) = c
IsUpper(c) == IsIn(c, UpperAlphabet)
IsLower(c) == IsIn(c, LowerAlphabet)
IsDigit(c) == IsIn(c, DigitAlphabet)
\* \w of the re module on ASCII text
IsWordChar(c) == IsUpper(c) \/ IsLower(c) \/ IsDigit(c) \/ c = "_"
\* \s of the re module on the white space the texts contain
IsSpace(c) == c = " " \/ c = "\n" \/ c = "\t"

LowerCh(c) ==
    IF IsUpper(c)
    THEN LET i == CHOOSE j \in 1..Len(UpperAlphabet) : Ch(UpperAlphabet, j) = c
         IN  Ch(LowerAlphabet, i)
    ELSE c

\* str.lower() of s[i-1:j], by halves
RECURSIVE LowerFrom(_, _, _)
LowerFrom(s, i, j) ==
    IF i > j THEN ""
    ELSE IF i = j THEN LowerCh(Ch(s, i))
    ELSE LowerFrom(s, i, (i + j) \div 2) \o LowerFrom(s, (i + j) \div 2 + 1, j)

\* sub in s
Contains(sub, s) ==
    \/ Len(sub) = 0
    \/ \E i \in 1..(Len(s) - Len(sub) + 1) : SubSeq(s, i, i + Len(sub) - 1) = sub

\* s[:n]
Prefix(s, n) == IF Len(s) <= n THEN s ELSE SubSeq(s, 1, n)

\* len([x for x in seq if P(x)])
RECURSIVE CountIf(_, _, _)
CountIf(seq, P(_), i) ==
    IF i > Len(seq) THEN 0
    ELSE (IF P(seq[i]) THEN 1 ELSE 0) + CountIf(seq, P, i + 1)

\* [x for x in seq if P(x)]
RECURSIVE Filter(_, _, _)
Filter(seq, P(_), i) ==
    IF i > Len(seq) THEN <<>>
    ELSE (IF P(seq[i]) THEN <<seq[i]>> ELSE <<>>) \o Filter(seq, P, i + 1)

\* the end (last position) of the maximal run of characters satisfying P that
\* starts at position i; i - 1 when s[i] does not satisfy P
RECURSIVE RunEnd(_, _, _)
RunEnd(s, P(_), i) ==
    IF i <= Len(s) /\ P(Ch(s, i)) THEN RunEnd(s, P, i + 1) ELSE i - 1

-----------------------------------------------------------------------------
(* The texts the bounded inputs are drawn from.                            *)

GracePassage == "Grace period of thirty days for premium payment."
CataractPassage == "Cataract surgery has a waiting period of two years."
GraceQuery == "What is the grace period for premium payment?"
PlainQuery == "premium payment details"

NoOverlapQuery == "Is maternity covered?"
StopWordQuery == "Is it to be?"

Queries == {GraceQuery, PlainQuery, NoOverlapQuery, StopWordQuery}
DuePassage == "Premium payment is due within the grace period."
Contents == {GracePassage, CataractPassage, DuePassage}

\* queries with cues of several domains and several question types, and with
\* entities
CoverQuery == "Does the policy cover Cataract surgery?"
CuesQuery == "How much is covered and why?"
ShallQuery == "What leave shall the employee take and why?"
LeaveQuery == "leave policy"
MonthsQuery == "What months cover amount?"
PartialQuery == "Are premium payments covering cataracts?"

\* a passage that holds every insurance term and every factual indicator
AllTermsPassage ==
    "What amount, period, limit, percentage, days: cover, coverage, covered, benefit, "
    \o "indemnify, reimburse, exclude, exclusion, not covered, except, limitation, "
    \o "condition, requirement, eligibility, qualify, subject to, waiting period, wait, "
    \o "months, continuous coverage, limit, maximum, cap, up to, not exceeding, means, "
    \o "defined as, refers to, includes, definition."

\* a passage of stop words and short words
StopPassage == "It is to be."

\* the queries and texts the scoring functions are called on
ScoreQueries ==
    Queries \cup {CoverQuery, CuesQuery, ShallQuery, LeaveQuery, MonthsQuery, PartialQuery}
ScoreContents == Contents \cup {AllTermsPassage, StopPassage}

\* the passages the lexical score is computed for
OverlapContents == Contents \cup {StopPassage}

\* TLC evaluates a constant once: str.lower() of the bounded texts
lowered == [s \in ScoreQueries \cup ScoreContents |-> LowerFrom(s, 1, Len(s))]

\* str.lower()
Lower(s) == IF s \in DOMAIN lowered THEN lowered[s] ELSE LowerFrom(s, 1, Len(s))

-----------------------------------------------------------------------------
(* ClauseMatcher (src/src/clause_matcher.py).                              *)

\* ClauseMatch(content, relevance_score, source_location, context)
ClauseMatch(c, s, l, x) ==
    [content |-> c, relevance_score |-> s, source_location |-> l, context |-> x]

\* self.domain_keywords, in the iteration order of the dict literals
domain_keywords ==
    << [domain |-> "insurance", categories |->
          << <<"cover", "coverage", "covered", "benefit", "indemnify", "reimburse">>,
             <<"exclude", "exclusion", "not covered", "except", "limitation">>,
             <<"condition", "requirement", "eligibility", "qualify", "subject to">>,
             <<"waiting period", "wait", "months", "continuous coverage">>,
             <<"limit", "maximum", "cap", "up to", "not exceeding">>,
             <<"means", "defined as", "refers to", "includes", "definition">> >>],
       [domain |-> "legal", categories |->
          << <<"shall", "must", "required", "obligation", "duty">>,
             <<"right", "entitled", "may", "permitted", "authorized">>,
             <<"penalty", "fine", "damages", "breach", "violation">>,
             <<"term", "period", "duration", "effective", "commence">> >>],
       [domain |-> "hr", categories |->
          << <<"benefit", "compensation", "allowance", "reimbursement">>,
             <<"policy", "procedure", "guideline", "rule", "regulation">>,
             <<"leave", "vacation", "sick", "absence", "time off">>,
             <<"performance", "evaluation", "review", "assessment">> >>] >>

\* the lists of a dict's values, concatenated in order
RECURSIVE Flatten(_, _)
Flatten(lists, i) == IF i > Len(lists) THEN <<>> ELSE lists[i] \o Flatten(lists, i + 1)

\* re.findall(r'\d+(?:\.\d+)?%?', s) from position i on
RECURSIVE FindNumbers(_, _)
FindNumbers(s, i) ==
    IF i > Len(s) THEN <<>>
    ELSE IF ~IsDigit(Ch(s, i)) THEN FindNumbers(s, i + 1)
    ELSE LET e1 == RunEnd(s, IsDigit, i)
             e2 == IF e1 + 2 <= Len(s) /\ Ch(s, e1 + 1) = "." /\ IsDigit(Ch(s, e1 + 2))
                   THEN RunEnd(s, IsDigit, e1 + 2) ELSE e1
             e3 == IF e2 + 1 <= Len(s) /\ Ch(s, e2 + 1) = "%" THEN e2 + 1 ELSE e2
         IN  <<SubSeq(s, i, e3)>> \o FindNumbers(s, e3 + 1)

\* \b before position i, s[i] being a word character
WordBoundaryBefore(s, i) == i = 1 \/ ~IsWordChar(Ch(s, i - 1))
\* \b after position e, s[e] being a word character
WordBoundaryAfter(s, e) == e >= Len(s) \/ ~IsWordChar(Ch(s, e + 1))

\* [A-Z][a-z]+ at position i: its last position (the whole run of lower-case
\* letters: what follows must be \s or \b), or 0 when it does not match
CapWordEnd(s, i) ==
    IF i + 1 <= Len(s) /\ IsUpper(Ch(s, i)) /\ IsLower(Ch(s, i + 1))
    THEN RunEnd(s, IsLower, i + 1) ELSE 0

\* (?:\s+[A-Z][a-z]+)* after a word ending at e: the last positions of the
\* words of the longest repetition
RECURSIVE CapChain(_, _)
CapChain(s, e) ==
    LET w  == RunEnd(s, IsSpace, e + 1)
        e2 == IF w > e THEN CapWordEnd(s, w + 1) ELSE 0
    IN  IF e2 > 0 THEN <<e2>> \o CapChain(s, e2) ELSE <<>>

\* re.findall(r'\b[A-Z][a-z]+(?:\s+[A-Z][a-z]+)*\b', s) from position i on:
\* the longest repetition whose end is a word boundary (backtracking gives up
\* the last word when a word character follows it)
RECURSIVE FindTerms(_, _)
FindTerms(s, i) ==
    IF i > Len(s) THEN <<>>
    ELSE LET e1   == IF WordBoundaryBefore(s, i) THEN CapWordEnd(s, i) ELSE 0
             ends == IF e1 > 0 THEN <<e1>> \o CapChain(s, e1) ELSE <<>>
             n    == Len(ends)
             e    == IF n = 0 THEN 0
                     ELSE IF WordBoundaryAfter(s, ends[n]) THEN ends[n]
                     ELSE IF n > 1 THEN ends[n - 1] ELSE 0
         IN  IF e > 0 THEN <<SubSeq(s, i, e)>> \o FindTerms(s, e + 1)
             ELSE FindTerms(s, i + 1)

NotQuote(c) == c # "\""

\* re.findall(r'"([^"]*)"', s) from position i on
RECURSIVE FindQuoted(_, _)
FindQuoted(s, i) ==
    IF i > Len(s) THEN <<>>
    ELSE IF NotQuote(Ch(s, i)) THEN FindQuoted(s, i + 1)
    ELSE LET j == RunEnd(s, NotQuote, i + 1) + 1
         IN  IF j > Len(s) THEN <<>>
             ELSE <<IF j = i + 1 THEN "" ELSE SubSeq(s, i + 1, j - 1)>>
                  \o FindQuoted(s, j + 1)

_extract_entities(q) == FindNumbers(q, 1) \o FindTerms(q, 1) \o FindQuoted(q, 1)

\* the "Determine domain" loop from domain number d on: the first domain with
\* a keyword occurring in the query, and the keywords of that domain found
RECURSIVE DetermineDomain(_, _)
DetermineDomain(query_lower, d) ==
    IF d > Len(domain_keywords) THEN [domain |-> "general", keywords |-> <<>>]
    ELSE LET found == Filter(Flatten(domain_keywords[d].categories, 1),
                             LAMBDA keyword : Contains(keyword, query_lower), 1)
         IN  IF Len(found) > 0
             THEN [domain |-> domain_keywords[d].domain, keywords |-> found]
             ELSE DetermineDomain(query_lower, d + 1)

\* any(word in query_lower for word in words)
AnyIn(words, query_lower) == \E i \in 1..Len(words) : Contains(words[i], query_lower)

\* the analysis with the boolean cues tried before the factual ones
_analyze_query_boolean_first(q) ==
    LET query_lower == Lower(q)
        dom == DetermineDomain(query_lower, 1)
        question_type ==
            IF AnyIn(<<"does", "is", "are", "can", "will">>, query_lower)
            THEN "boolean"
            ELSE IF AnyIn(<<"what", "which", "how much", "how many">>, query_lower)
            THEN "factual"
            ELSE IF AnyIn(<<"how", "why", "when", "where">>, query_lower)
            THEN "explanatory"
            ELSE "general"
    IN  [domain |-> dom.domain, intent |-> "information", keywords |-> dom.keywords,
         question_type |-> question_type, entities |-> _extract_entities(q)]

_analyze_query(q) ==
    LET query_lower == Lower(q)
        dom == DetermineDomain(query_lower, 1)
        question_type ==
            IF AnyIn(<<"what", "which", "how much", "how many">>, query_lower)
            THEN "factual"
            ELSE IF AnyIn(<<"does", "is", "are", "can", "will">>, query_lower)
            THEN "boolean"
            ELSE IF AnyIn(<<"how", "why", "when", "where">>, query_lower)
            THEN "explanatory"
            ELSE "general"
    IN  [domain |-> dom.domain, intent |-> "information", keywords |-> dom.keywords,
         question_type |-> question_type, entities |-> _extract_entities(q)]

_calculate_keyword_bonus(keywords, content) ==
    IF Len(keywords) = 0 THEN Zero
    ELSE LET content_lower == Lower(content)
             matches == CountIf(keywords, LAMBDA keyword : Contains(keyword, content_lower), 1)
         IN  RMin(Rat(matches, Len(keywords)), <<1, 2>>)

_calculate_entity_bonus(entities, content) ==
    IF Len(entities) = 0 THEN Zero
    ELSE LET content_lower == Lower(content)
             matches == CountIf(entities, LAMBDA entity : Contains(Lower(entity), content_lower), 1)
         IN  RMin(RMul(Rat(matches, Len(entities)), <<3, 10>>), <<3, 10>>)

\* the domain's category lists concatenated; empty for a domain not in the table
DomainTerms(domain) ==
    IF \E d \in 1..Len(domain_keywords) : domain_keywords[d].domain = domain
    THEN Flatten(domain_keywords[CHOOSE d \in 1..Len(domain_keywords) :
                                    domain_keywords[d].domain = domain].categories, 1)
    ELSE <<>>

_calculate_domain_bonus(domain, content) ==
    IF domain = "general" THEN Zero
    ELSE LET domain_terms == DomainTerms(domain)
             content_lower == Lower(content)
             matches == CountIf(domain_terms, LAMBDA term : Contains(term, content_lower), 1)
             size == IF Len(domain_terms) > 1 THEN Len(domain_terms) ELSE 1
         IN  RMin(RMul(Rat(matches, size), <<1, 5>>), <<1, 5>>)

type_indicators(question_type) ==
    CASE question_type = "boolean" ->
            <<"yes", "no", "covered", "not covered", "eligible", "applicable">>
      [] question_type = "factual" ->
            <<"amount", "period", "limit", "percentage", "days", "months">>
      [] question_type = "explanatory" ->
            <<"because", "due to", "provided that", "subject to", "means">>
      [] OTHER -> <<>>

_calculate_type_bonus(question_type, content) ==
    LET content_lower == Lower(content)
        indicators == type_indicators(question_type)
    IN  IF Len(indicators) > 0
        THEN LET matches == CountIf(indicators,
                                    LAMBDA indicator : Contains(indicator, content_lower), 1)
             IN  RMin(RMul(Rat(matches, Len(indicators)), <<1, 10>>), <<1, 10>>)
        ELSE Zero

\* TLC evaluates a constant once: the query analysis and the four bonuses,
\* pure functions of the query and the clause text, are tabulated over the
\* texts of the bounded inputs
analysis_memo == [q \in ScoreQueries |-> _analyze_query(q)]

bonus_memo ==
    [query_analysis \in {analysis_memo[q] : q \in ScoreQueries} |->
        [content \in ScoreContents |->
            [keyword_bonus |-> _calculate_keyword_bonus(query_analysis.keywords, content),
             entity_bonus |-> _calculate_entity_bonus(query_analysis.entities, content),
             domain_bonus |-> _calculate_domain_bonus(query_analysis.domain, content),
             type_bonus |-> _calculate_type_bonus(query_analysis.question_type, content)]]]

\* a combination that gives the base score and the keyword bonus the weight
\* of each other
WeightedSumSwapped(base_score, bonus) ==
    RAdd(RAdd(RAdd(RAdd(RMul(base_score, <<1, 4>>),
                        RMul(bonus.keyword_bonus, <<2, 5>>)),
                   RMul(bonus.entity_bonus, <<3, 20>>)),
              RMul(bonus.domain_bonus, <<1, 10>>)),
         RMul(bonus.type_bonus, <<1, 10>>))

\* the weighted combination of the base score and the four bonuses
WeightedSum(base_score, bonus) ==
    RAdd(RAdd(RAdd(RAdd(RMul(base_score, <<2, 5>>),
                        RMul(bonus.keyword_bonus, <<1, 4>>)),
                   RMul(bonus.entity_bonus, <<3, 20>>)),
              RMul(bonus.domain_bonus, <<1, 10>>)),
         RMul(bonus.type_bonus, <<1, 10>>))

_calculate_enhanced_score(q, clause, query_analysis) ==
    RMin(WeightedSum(clause.relevance_score,
                     bonus_memo[query_analysis][clause.content]),
         One)

\* a descending sort that is not stable: hits of equal score come out in the
\* reverse of their input order (sorting ascending, then reversing the list)
RECURSIVE SortEnhancedUnstable(_, _)
SortEnhancedUnstable(clauses, n) ==
    IF n = 0 THEN <<>>
    ELSE LET sorted == SortEnhancedUnstable(clauses, n - 1)
             c == clauses[n]
             k == CountIf(sorted, LAMBDA x : RLess(c.relevance_score, x.relevance_score), 1)
         IN  SubSeq(sorted, 1, k) \o <<c>> \o SubSeq(sorted, k + 1, Len(sorted))

\* list.sort(key=lambda x: x.relevance_score, reverse=True): Python's sort is
\* stable, also with reverse=True; n is the number of elements sorted so far
RECURSIVE SortEnhanced(_, _)
SortEnhanced(clauses, n) ==
    IF n = 0 THEN <<>>
    ELSE LET sorted == SortEnhanced(clauses, n - 1)
             c == clauses[n]
             k == CountIf(sorted, LAMBDA x : RLeq(c.relevance_score, x.relevance_score), 1)
         IN  SubSeq(sorted, 1, k) \o <<c>> \o SubSeq(sorted, k + 1, Len(sorted))

threshold == <<3, 10>>
TopClauses == 5

\* c.relevance_score >= threshold: the comparison off by the boundary
AboveOrAtThreshold(c) == RLeq(threshold, c.relevance_score)

\* c.relevance_score > threshold
AboveThreshold(c) == RLess(threshold, c.relevance_score)

\* the slice left out: every survivor is returned
NoSlice(filtered_clauses) == filtered_clauses

\* filtered_clauses[:5]
TopSlice(filtered_clauses) == Prefix(filtered_clauses, TopClauses)

\* the loop "Re-score clauses" of match_clauses
EnhancedClauses(q, retrieved, query_analysis) ==
    [i \in 1..Len(retrieved) |->
        ClauseMatch(retrieved[i].content,
                    _calculate_enhanced_score(q, retrieved[i], query_analysis),
                    retrieved[i].source_location,
                    retrieved[i].context)]

\* sort, filter and slice of match_clauses
SortFilterSlice(enhanced_clauses) ==
    TopSlice(Filter(SortEnhanced(enhanced_clauses, Len(enhanced_clauses)),
                    AboveThreshold, 1))

match_clauses(q, retrieved) ==
    SortFilterSlice(EnhancedClauses(q, retrieved, analysis_memo[q]))

-----------------------------------------------------------------------------
(* The index backends: EmbeddingSearchLite and EmbeddingSearch.            *)

\* DocumentChunk(content, page_number, section); page_number 0 stands for
\* None (the code only tests its truth value); chunk_id, an opaque uuid that
\* nothing reads, is left out
DocumentChunk(c, p, sec) == [content |-> c, page_number |-> p, section |-> sec]

\* a location that names the section of the chunk as well
section_location(chunk) ==
    IF chunk.page_number # 0
    THEN "Page " \o ToString(chunk.page_number) \o ", " \o chunk.section
    ELSE "Unknown"

\* f"Page {chunk.page_number}" if chunk.page_number else "Unknown"
source_location(chunk) ==
    IF chunk.page_number # 0 THEN "Page " \o ToString(chunk.page_number) ELSE "Unknown"

\* " ".join(parts)
RECURSIVE JoinSpace(_, _)
JoinSpace(parts, i) ==
    IF i > Len(parts) THEN ""
    ELSE IF i = Len(parts) THEN parts[i]
    ELSE parts[i] \o " " \o JoinSpace(parts, i + 1)

ContextChars == 100

\* the context without the loop "Add next chunks"
_get_context_before(cs, chunk_idx) ==
    LET previous == IF chunk_idx > 1
                    THEN <<"[Previous] " \o Prefix(cs[chunk_idx - 1].content, ContextChars) \o "...">>
                    ELSE <<>>
        current == <<"[Current] " \o cs[chunk_idx].content>>
    IN  JoinSpace(previous \o current, 1)

\* _get_context(chunk_idx) with context_window = 1, on both backends; positions
\* are counted from 1 here and from 0 in the code
_get_context(cs, chunk_idx) ==
    LET previous == IF chunk_idx > 1
                    THEN <<"[Previous] " \o Prefix(cs[chunk_idx - 1].content, ContextChars) \o "...">>
                    ELSE <<>>
        current == <<"[Current] " \o cs[chunk_idx].content>>
        next == IF chunk_idx < Len(cs)
                THEN <<"[Next] " \o Prefix(cs[chunk_idx + 1].content, ContextChars) \o "...">>
                ELSE <<>>
    IN  JoinSpace(previous \o current \o next, 1)

\* EmbeddingSearchLite.stop_words
stop_words ==
    {"the", "a", "an", "and", "or", "but", "in", "on", "at", "to", "for", "of", "with", "by",
     "is", "are", "was", "were", "be", "been", "being", "have", "has", "had", "do", "does", "did",
     "will", "would", "could", "should", "may", "might", "can", "this", "that", "these", "those"}

\* re.findall(r'\b\w+\b', s) from position i on: the maximal runs of word characters
RECURSIVE FindWords(_, _)
FindWords(s, i) ==
    IF i > Len(s) THEN <<>>
    ELSE IF ~IsWordChar(Ch(s, i)) THEN FindWords(s, i + 1)
    ELSE LET e == RunEnd(s, IsWordChar, i)
         IN  <<SubSeq(s, i, e)>> \o FindWords(s, e + 1)

\* the filter inverted: only stop words and short words are kept
IsStopOrShort(w) == ~(w \notin stop_words /\ Len(w) > 2)

\* w not in self.stop_words and len(w) > 2
IsKeyword(w) == w \notin stop_words /\ Len(w) > 2

_extract_keywords(s) == Filter(FindWords(s, 1), IsKeyword, 1)

\* word in text_words
InList(word, words) == \E i \in 1..Len(words) : words[i] = word

\* the partial match in one direction only: word in text_word
PartialMatchOneWay(word, text_words) ==
    \E i \in 1..Len(text_words) : Contains(word, text_words[i])

\* any(word in text_word or text_word in word for text_word in text_words)
PartialMatch(word, text_words) ==
    \E i \in 1..Len(text_words) :
        Contains(word, text_words[i]) \/ Contains(text_words[i], word)

\* twice the value of matches after the loop over query_words from position i on
RECURSIVE TwiceMatches(_, _, _)
TwiceMatches(query_words, text_words, i) ==
    IF i > Len(query_words) THEN 0
    ELSE (IF InList(query_words[i], text_words) THEN 2
          ELSE IF PartialMatch(query_words[i], text_words) THEN 1
          ELSE 0) + TwiceMatches(query_words, text_words, i + 1)

_calculate_similarity(query_words, s) ==
    IF Len(query_words) = 0 THEN Zero
    ELSE LET text_words == _extract_keywords(s)
         IN  IF Len(text_words) = 0 THEN Zero
             ELSE Rat(TwiceMatches(query_words, text_words, 1), 2 * Len(query_words))

\* the score of every content for every query, tabulated over the texts of the
\* bounded inputs (TLC evaluates a constant once)
similarity_memo ==
    [q \in ScoreQueries |->
        LET query_words == _extract_keywords(Lower(q))
        IN  [content \in OverlapContents |-> _calculate_similarity(query_words, Lower(content))]]

\* the loop with the test "score >= 0": chunks of score 0 are kept too
RECURSIVE ScoreChunksAll(_, _, _)
ScoreChunksAll(cs, q, idx) ==
    IF idx > Len(cs) THEN <<>>
    ELSE << <<idx, similarity_memo[q][cs[idx].content]>> >> \o ScoreChunksAll(cs, q, idx + 1)

\* the loop "Score each chunk" from position idx on: the chunks of positive score
RECURSIVE ScoreChunks(_, _, _)
ScoreChunks(cs, q, idx) ==
    IF idx > Len(cs) THEN <<>>
    ELSE LET score == similarity_memo[q][cs[idx].content]
         IN  (IF RLess(Zero, score) THEN << <<idx, score>> >> ELSE <<>>)
             \o ScoreChunks(cs, q, idx + 1)

\* a descending sort that is not stable: chunks of equal score come out in the
\* reverse of their index order
RECURSIVE SortScoredUnstable(_, _)
SortScoredUnstable(scored, n) ==
    IF n = 0 THEN <<>>
    ELSE LET sorted == SortScoredUnstable(scored, n - 1)
             c == scored[n]
             k == Cardinality({i \in 1..Len(sorted) : RLess(c[2], sorted[i][2])})
         IN  SubSeq(sorted, 1, k) \o <<c>> \o SubSeq(sorted, k + 1, Len(sorted))

\* scored_chunks.sort(key=lambda x: x[1], reverse=True): stable; n is the
\* number of elements sorted so far
RECURSIVE SortScored(_, _)
SortScored(scored, n) ==
    IF n = 0 THEN <<>>
    ELSE LET sorted == SortScored(scored, n - 1)
             c == scored[n]
             k == Cardinality({i \in 1..Len(sorted) : RLeq(c[2], sorted[i][2])})
         IN  SubSeq(sorted, 1, k) \o <<c>> \o SubSeq(sorted, k + 1, Len(sorted))

\* the slice left out: every scored chunk is kept
TopKAll(scored, k) == scored

\* scored_chunks[:top_k], top_k >= 0
TopK(scored, k) == Prefix(scored, k)

\* the loop "Convert to ClauseMatch objects" over (idx, score) tuples
MatchesOf(cs, top_chunks) ==
    [j \in 1..Len(top_chunks) |->
        LET idx == top_chunks[j][1]
        IN  ClauseMatch(cs[idx].content, top_chunks[j][2],
                        source_location(cs[idx]), _get_context(cs, idx))]

\* sort and slice of EmbeddingSearchLite.search
SortAndSlice(scored_chunks, k) == TopK(SortScored(scored_chunks, Len(scored_chunks)), k)

\* EmbeddingSearchLite.search: the (idx, score) tuples behind the returned hits
lite_top_chunks(cs, q, k) ==
    IF Len(cs) = 0 THEN <<>>
    ELSE SortAndSlice(ScoreChunks(cs, q, 1), k)

\* the positions of a row of (idx, score) tuples
Positions(top_chunks) == [j \in 1..Len(top_chunks) |-> top_chunks[j][1]]

\* The embedding function of the dense backend (SentenceTransformer.encode
\* followed by faiss.normalize_L2) is external: a text is mapped to a unit
\* vector, the same text always to the same vector.  Two such functions:
UnitVectors == {<<1, 0>>, <<0, 1>>, <<-1, 0>>}

EncoderA ==
    [s \in Contents \cup Queries |->
        CASE s = GracePassage -> <<1, 0>>
          [] s = DuePassage -> <<1, 0>>
          [] s = CataractPassage -> <<-1, 0>>
          [] s = GraceQuery -> <<1, 0>>
          [] OTHER -> <<0, 1>>]

EncoderB ==
    [s \in Contents \cup Queries |->
        CASE s = GracePassage -> <<0, 1>>
          [] s = DuePassage -> <<-1, 0>>
          [] s = CataractPassage -> <<1, 0>>
          [] s = GraceQuery -> <<1, 0>>
          [] OTHER -> <<-1, 0>>]

Encoders == {EncoderA, EncoderB}

\* IndexFlatIP: the inner product of two vectors, a cosine for unit vectors
InnerProduct(u, v) == <<u[1] * v[1] + u[2] * v[2], 1>>

\* index.search(query_embedding, top_k): the possible index rows, best first.
\* For top_k < 1 the call raises or returns empty rows, depending on the faiss
\* version, and search returns [] either way.  Otherwise the row holds the
\* min(top_k, ntotal) best positions by descending inner product (the order
\* among equal products is not specified), padded with -1, which the loop skips.
FaissRows(idx, qv, k) ==
    LET n == Len(idx)
        m == IF k < n THEN k ELSE n
        sc(i) == InnerProduct(qv, idx[i])
    IN  IF k < 1 THEN {<<>>}
        ELSE { r \in [1..m -> 1..n] :
                 /\ \A a \in 1..m : \A b \in 1..m : a < b =>
                        (r[a] # r[b] /\ RLeq(sc(r[b]), sc(r[a])))
                 /\ \A i \in 1..n : (\A a \in 1..m : r[a] # i) =>
                        \A a \in 1..m : RLeq(sc(i), sc(r[a])) }

\* the loop over zip(scores[0], indices[0]): rows whose position is not a
\* position of self.chunks are skipped
ValidRows(cs, row) == Filter(row, LAMBDA i : i >= 1 /\ i <= Len(cs), 1)

\* no document has been handed to the DocumentProcessor
NoDocument == [format |-> "none", body |-> <<>>]

\* there is no second instance, no request, and the application is not
\* initialized
NoTwin == [op |-> "none"]
\* before any _analyze_query call
NoAnalysis == [domain |-> "none"]

\* before any evaluate_and_respond call
NoResponse == [text |-> "", llm |-> "none"]

NoSession ==
    /\ twin = NoTwin /\ requests = <<>> /\ _system_initialized = FALSE
    /\ last_analysis = NoAnalysis /\ response = NoResponse

\* self.index = None
NoIndex == [built |-> FALSE, vectors |-> <<>>]

\* the passages an index is built from
PassagePool ==
    { DocumentChunk(GracePassage, 1, "None"),
      DocumentChunk(CataractPassage, 2, "None"),
      DocumentChunk(DuePassage, 0, "None") }

\* the longest passage sequence handed to build_index, the largest top_k
MaxPassages == 2
MaxTopK == 3

PassageLists == UNION { [1..n -> PassagePool] : n \in 0..MaxPassages }
TopKs == 0..MaxTopK

-----------------------------------------------------------------------------
(* Spec: one index backend instance, lexical or dense, driven by any       *)
(* sequence of build_index and search calls; match_clauses re-ranks the    *)
(* hits of a search.                                                       *)

Init ==
    /\ op = "init" /\ raised = "None"
    /\ \/ backend = "lite" /\ encoder = <<>>
       \/ backend = "dense" /\ encoder \in Encoders
    /\ model = FALSE /\ chunks = <<>> /\ index = NoIndex /\ passages = <<>>
    /\ query = "" /\ top_k = 0 /\ hits = <<>> /\ hit_pos = <<>>
    /\ retrieved_clauses = <<>> /\ matched = <<>>
    /\ document = NoDocument /\ doc_chunks = <<>>
    /\ build_called = FALSE /\ build_raised = "None" /\ NoSession

\* what every build_index call leaves of the previous call's results
BuildResets ==
    /\ op' = "build_index"
    /\ query' = "" /\ top_k' = 0 /\ hits' = <<>> /\ hit_pos' = <<>>
    /\ retrieved_clauses' = <<>> /\ matched' = <<>>
    /\ build_called' = TRUE
    /\ build_raised' = raised'
    /\ UNCHANGED <<backend, encoder, chunkVars>>

\* the new passages appended to the stored ones
ExtendedChunks(cs, ps) == cs \o ps

\* self.chunks = chunks
BuiltChunks(cs, ps) == ps

\* get_chunk_statistics(): total_chunks and total_pages of the stored passages
get_chunk_statistics(cs) ==
    [total_chunks |-> Len(cs),
     total_pages |-> Cardinality({ cs[i].page_number : i \in 1..Len(cs) } \ {0})]

\* EmbeddingSearchLite.build_index(ps)
lite_build_index(ps) ==
    /\ backend = "lite"
    /\ chunks' = BuiltChunks(chunks, ps)
    /\ passages' = ps
    /\ raised' = "None"
    /\ UNCHANGED <<model, index>>
    /\ BuildResets

\* the hits returned for a row of (idx, score) tuples, and their positions
LiteReturns(returned, positions, top_chunks) ==
    /\ returned = MatchesOf(chunks, top_chunks)
    /\ positions = Positions(top_chunks)

\* EmbeddingSearchLite.search(q, k)
lite_search(q, k) ==
    /\ backend = "lite"
    /\ LiteReturns(hits', hit_pos', lite_top_chunks(chunks, q, k))
    /\ op' = "search" /\ raised' = "None"
    /\ query' = q /\ top_k' = k
    /\ retrieved_clauses' = <<>> /\ matched' = <<>>
    /\ UNCHANGED <<backend, encoder, model, chunks, index, passages, build_called,
                   build_raised, chunkVars>>

\* EmbeddingSearch.build_index(ps).  Loading the model and encoding the texts
\* are calls of an external library and may raise.
dense_build_index(ps) ==
    /\ backend = "dense"
    /\ passages' = ps
    /\ \/ \* initialize() raises: nothing is assigned
          /\ ~model
          /\ raised' = "ModelLoadError"
          /\ UNCHANGED <<model, chunks, index>>
       \/ \* self.model.encode(texts) raises after self.chunks = chunks
          /\ model' = TRUE
          /\ chunks' = ps
          /\ raised' = "EncodeError"
          /\ UNCHANGED index
       \/ \* encode([]) is an array of shape (0,): self.embeddings.shape[1]
          \* raises IndexError after self.chunks = chunks
          /\ ps = <<>>
          /\ model' = TRUE
          /\ chunks' = ps
          /\ raised' = "IndexError"
          /\ UNCHANGED index
       \/ /\ ps # <<>>
          /\ model' = TRUE
          /\ chunks' = ps
          /\ index' = [built |-> TRUE,
                       vectors |-> [i \in 1..Len(ps) |-> encoder[ps[i].content]]]
          /\ raised' = "None"
    /\ BuildResets

\* the test left out: search never raises "Index not built"
IndexNeverChecked == FALSE

\* if not self.index or not self.model
IndexNotBuilt == ~index.built \/ ~model

\* EmbeddingSearch.search(q, k)
dense_search(q, k) ==
    /\ backend = "dense"
    /\ op' = "search"
    /\ query' = q /\ top_k' = k
    /\ retrieved_clauses' = <<>> /\ matched' = <<>>
    /\ \/ /\ IndexNotBuilt
          /\ raised' = "Index not built"
          /\ hits' = <<>> /\ hit_pos' = <<>>
       \/ \* self.model.encode([query]) raises: it is outside the try block
          /\ ~IndexNotBuilt
          /\ raised' = "EncodeError"
          /\ hits' = <<>> /\ hit_pos' = <<>>
       \/ /\ ~IndexNotBuilt
          /\ \E row \in FaissRows(index.vectors, encoder[q], k) :
                LET rows == ValidRows(chunks, row)
                IN  /\ hit_pos' = rows
                    /\ hits' = MatchesOf(chunks,
                                  [j \in 1..Len(rows) |->
                                      <<rows[j], InnerProduct(encoder[q], index.vectors[rows[j]])>>])
          /\ raised' = "None"
    /\ UNCHANGED <<backend, encoder, model, chunks, index, passages, build_called,
                   build_raised, chunkVars>>

\* clause_matcher.match_clauses(question, relevant_clauses) on the hits of the
\* search that just returned
match_hits ==
    /\ op = "search" /\ raised = "None"
    /\ retrieved_clauses' = hits
    /\ matched' = match_clauses(query, hits)
    /\ op' = "match_clauses"
    /\ UNCHANGED <<raised, query, searchVars, chunkVars>>

\* the calls made on one backend instance that serves no request
LiteBuildIndex(ps) == lite_build_index(ps) /\ UNCHANGED sessionVars
LiteSearch(q, k) == lite_search(q, k) /\ UNCHANGED sessionVars
DenseBuildIndex(ps) == dense_build_index(ps) /\ UNCHANGED sessionVars
DenseSearch(q, k) == dense_search(q, k) /\ UNCHANGED sessionVars
MatchHits == match_hits /\ UNCHANGED sessionVars

Next ==
    \/ \E ps \in PassageLists : LiteBuildIndex(ps)
    \/ \E q \in Queries : \E k \in TopKs : LiteSearch(q, k)
    \/ \E ps \in PassageLists : DenseBuildIndex(ps)
    \/ \E q \in Queries : \E k \in TopKs : DenseSearch(q, k)
    \/ MatchHits

Spec == Init /\ [][Next]_vars

-----------------------------------------------------------------------------
(* The hit lists handed to match_clauses.                                  *)

\* the longest hit list handed to match_clauses
MaxHits == 6

\* the hits the lists handed to match_clauses are made of: the original
\* relevance_score is any value a backend can produce (a dense cosine in
\* [-1, 1], a lexical overlap in [0, 1])
HitPool ==
    { ClauseMatch(GracePassage, One, "Page 1", "[Current] " \o GracePassage),
      ClauseMatch(GracePassage, One, "Page 2", "[Current] " \o GracePassage),
      ClauseMatch(GracePassage, <<3, 4>>, "Page 1", "[Current] " \o GracePassage),
      ClauseMatch(CataractPassage, <<-1, 2>>, "Unknown", "[Current] " \o CataractPassage) }

HitLists == UNION { [1..n -> HitPool] : n \in 0..MaxHits }

-----------------------------------------------------------------------------
(* SpecRank: match_clauses called on any query and any hit list.           *)

InitRank ==
    /\ op = "init" /\ raised = "None"
    /\ query \in Queries
    /\ retrieved_clauses \in HitLists
    /\ matched = <<>>
    /\ backend = "none" /\ encoder = <<>> /\ model = FALSE
    /\ chunks = <<>> /\ index = NoIndex /\ passages = <<>>
    /\ top_k = 0 /\ hits = <<>> /\ hit_pos = <<>>
    /\ document = NoDocument /\ doc_chunks = <<>>
    /\ build_called = FALSE /\ build_raised = "None" /\ NoSession

\* clause_matcher.match_clauses(question, relevant_clauses)
MatchClauses ==
    /\ op = "init"
    /\ matched' = match_clauses(query, retrieved_clauses)
    /\ op' = "match_clauses"
    /\ UNCHANGED <<raised, query, retrieved_clauses, searchVars, chunkVars, sessionVars>>

NextRank == MatchClauses

SpecRank == InitRank /\ [][NextRank]_vars

\* the composite score _calculate_enhanced_score gives input hit i
Composite(i) ==
    _calculate_enhanced_score(query, retrieved_clauses[i], analysis_memo[query])

\* input hit i as match_clauses re-scores it
Enhanced(i) ==
    ClauseMatch(retrieved_clauses[i].content, Composite(i),
                retrieved_clauses[i].source_location, retrieved_clauses[i].context)

EnhancedInput == [i \in 1..Len(retrieved_clauses) |-> Enhanced(i)]

\* the hits of a list that have score s, in the order of the list
WithScore(list, s) == Filter(list, LAMBDA c : c.relevance_score = s, 1)

\* C1: for every query and every input hit list, of any length, match_clauses
\* returns at most 5 hits.
C1_AtMostFive == op = "match_clauses" => Len(matched) <= 5

\* C1 witness: an input list longer than 5 in which every hit scores above the
\* threshold, cut down to 5.
C1_Witness ==
    /\ op = "match_clauses"
    /\ Len(retrieved_clauses) > 5
    /\ \A i \in 1..Len(retrieved_clauses) : RLess(<<3, 10>>, Composite(i))
    /\ Len(matched) = 5

C3_CompositeInUnitInterval ==
    op = "match_clauses" =>
        \A i \in 1..Len(retrieved_clauses) :
            (/\ RLeq(<<-1, 1>>, retrieved_clauses[i].relevance_score)
             /\ RLeq(retrieved_clauses[i].relevance_score, One))
            => (RLeq(Zero, Composite(i)) /\ RLeq(Composite(i), One))

\* C4: the list match_clauses returns is ordered by non-increasing composite
\* score, and hits of equal composite score keep the relative order they had in
\* the input list: the returned hits of one score are the first of the input
\* hits of that score, in input order.
C4_SortedStable ==
    op = "match_clauses" =>
        /\ \A j \in 1..Len(matched) : \A k \in 1..Len(matched) :
              j < k => RLeq(matched[k].relevance_score, matched[j].relevance_score)
        /\ \A j \in 1..Len(matched) :
              LET s == matched[j].relevance_score
                  out == WithScore(matched, s)
              IN  out = Prefix(WithScore(EnhancedInput, s), Len(out))

\* C4 witness: two different hits of equal composite score and a hit of lower
\* score are returned together.
C4_Witness ==
    /\ op = "match_clauses"
    /\ \E j \in 1..Len(matched) : \E k \in 1..Len(matched) :
          /\ j < k
          /\ matched[j].relevance_score = matched[k].relevance_score
          /\ matched[j] # matched[k]
    /\ \E j \in 1..Len(matched) : \E k \in 1..Len(matched) :
          RLess(matched[k].relevance_score, matched[j].relevance_score)

\* the score the backend computes for a passage and the query of the last search
ScoreOf(passage) ==
    IF backend = "lite" THEN similarity_memo[query][passage.content]
    ELSE InnerProduct(encoder[query], encoder[passage.content])

\* failures of the external embedding library, as opposed to errors of the code
ExternalFailures == {"ModelLoadError", "EncodeError"}

\* C5: on every backend, for every built index, every query and every
\* top_k = K >= 0, a search that returns returns at most K hits.
C5_AtMostTopK == (op = "search" /\ raised = "None") => Len(hits) <= top_k

\* C5 witness: more passages than K score above 0 and the search returns
\* exactly K > 0 of them.
C5_Witness ==
    /\ op = "search" /\ raised = "None" /\ backend = "lite"
    /\ top_k > 0
    /\ Len(ScoreChunks(chunks, query, 1)) > top_k
    /\ Len(hits) = top_k

\* C6: the hits EmbeddingSearchLite.search returns are ordered by
\* non-increasing relevance_score, and of two passages with equal score the one
\* at the lower position of the sequence passed to build_index comes first.
C6_LiteOrder ==
    (op = "search" /\ backend = "lite") =>
        /\ Len(hit_pos) = Len(hits)
        /\ \A j \in 1..Len(hits) :
              /\ hit_pos[j] \in 1..Len(passages)
              /\ hits[j].content = passages[hit_pos[j]].content
              /\ hits[j].relevance_score = ScoreOf(passages[hit_pos[j]])
        /\ \A j \in 1..Len(hits) : \A k \in 1..Len(hits) :
              j < k =>
                  /\ RLeq(hits[k].relevance_score, hits[j].relevance_score)
                  /\ hits[j].relevance_score = hits[k].relevance_score
                        => hit_pos[j] < hit_pos[k]

\* C6 witness: two different passages of equal score are both returned.
C6_Witness ==
    /\ op = "search" /\ backend = "lite"
    /\ Len(hits) = 2
    /\ hits[1].relevance_score = hits[2].relevance_score
    /\ hits[1].content # hits[2].content

\* C7: on every backend build_index([]) completes, and every later search
\* returns the empty list without raising (failures of the embedding library
\* itself set aside).
C7_EmptyIndex ==
    /\ (op = "build_index" /\ passages = <<>> /\ raised \notin ExternalFailures)
          => raised = "None"
    /\ (op = "search" /\ passages = <<>> /\ raised \notin ExternalFailures)
          => (raised = "None" /\ hits = <<>>)

\* C8: after any sequence of build_index and search calls, every hit a search
\* returns corresponds to a position of the sequence most recently passed to
\* build_index, and its content, source_location and score are those of the
\* passage at that position.
C8_HitsResolve ==
    (op = "search" /\ raised = "None") =>
        /\ Len(hit_pos) = Len(hits)
        /\ \A j \in 1..Len(hits) :
              /\ hit_pos[j] \in 1..Len(passages)
              /\ hits[j].content = passages[hit_pos[j]].content
              /\ hits[j].source_location = source_location(passages[hit_pos[j]])
              /\ hits[j].relevance_score = ScoreOf(passages[hit_pos[j]])

\* the query and the content share no token, neither exactly nor as a
\* substring in either direction (tabulated over the bounded texts)
no_shared_token ==
    [q \in Queries |->
        [content \in Contents |->
            LET query_words == _extract_keywords(Lower(q))
                text_words == _extract_keywords(Lower(content))
            IN  \A i \in 1..Len(query_words) : \A j \in 1..Len(text_words) :
                    /\ ~Contains(query_words[i], text_words[j])
                    /\ ~Contains(text_words[j], query_words[i])]]

\* C12: EmbeddingSearchLite.search returns the empty list, without raising,
\* whenever the query shares no token with any indexed passage (in particular
\* when it has no token left after filtering), and no hit has a score <= 0.
C12_NoSignalNoHits ==
    (op = "search" /\ backend = "lite") =>
        /\ raised = "None"
        /\ \A j \in 1..Len(hits) : RLess(Zero, hits[j].relevance_score)
        /\ (\A i \in 1..Len(passages) : no_shared_token[query][passages[i].content])
              => hits = <<>>

\* C12 witness: passages are indexed, top_k > 0, and a query without
\* vocabulary overlap gets no hit.
C12_Witness ==
    /\ op = "search" /\ backend = "lite"
    /\ Len(passages) > 0 /\ top_k > 0
    /\ query = NoOverlapQuery
    /\ hits = <<>>

\* C14: with the index of the lexical backend built from the Grace passage and
\* the Cataract passage, in that order, and the Grace query, search (top_k >= 1)
\* followed by match_clauses returns 1 or 2 hits in non-increasing score order,
\* the first of them the Grace passage with a composite score above 0.3.
C14_GraceScenario ==
    (/\ op = "match_clauses" /\ backend = "lite"
     /\ Len(passages) = 2
     /\ passages[1].content = GracePassage /\ passages[2].content = CataractPassage
     /\ query = GraceQuery /\ top_k >= 1) =>
        /\ Len(matched) \in {1, 2}
        /\ \A j \in 1..(Len(matched) - 1) :
              RLeq(matched[j + 1].relevance_score, matched[j].relevance_score)
        /\ matched[1].content = GracePassage
        /\ RLess(threshold, matched[1].relevance_score)

\* C14 witness: the scenario has run, with the top_k of the request pipeline
\* or any other that covers both passages.
C14_Witness ==
    /\ op = "match_clauses" /\ backend = "lite"
    /\ Len(passages) = 2
    /\ passages[1].content = GracePassage /\ passages[2].content = CataractPassage
    /\ query = GraceQuery /\ top_k >= 2
    /\ Len(retrieved_clauses) = 2
    /\ Len(matched) >= 1

\* C17: a search issued before any build_index raises "Index not built" on the
\* dense backend, and returns the empty list without raising on the lexical
\* backend.
C17_SearchBeforeBuild ==
    (op = "search" /\ ~build_called) =>
        /\ backend = "dense" => raised = "Index not built"
        /\ backend = "lite" => (raised = "None" /\ hits = <<>>)

\* C17 witness: the dense backend has raised on a search before any build.
C17_Witness ==
    /\ op = "search" /\ ~build_called
    /\ backend = "dense" /\ raised = "Index not built"

-----------------------------------------------------------------------------
(* DocumentProcessor.  A text is a sequence of runs <<class, count>>, no   *)
(* two adjacent runs of the same class.  The classes are "l" a lower-case  *)
(* letter, "U" an upper-case letter, "d" a digit, "c" the colon, "t" the   *)
(* full stop (the sentence terminator of the texts considered), "s" the    *)
(* space and "n" the newline.                                              *)

\* len(text)
RECURSIVE TLen(_)
TLen(t) == IF t = <<>> THEN 0 ELSE Head(t)[2] + TLen(Tail(t))

\* str.isspace of one character class
IsWhite(run) == run[1] \in {"s", "n"}

RECURSIVE LStrip(_)
LStrip(t) ==
    IF t = <<>> THEN <<>>
    ELSE IF IsWhite(Head(t)) THEN LStrip(Tail(t)) ELSE t

RECURSIVE RStrip(_)
RStrip(t) ==
    IF t = <<>> THEN <<>>
    ELSE IF IsWhite(t[Len(t)]) THEN RStrip(SubSeq(t, 1, Len(t) - 1)) ELSE t

\* str.strip()
Strip(t) == RStrip(LStrip(t))

\* a + b
Concat(a, b) ==
    IF a = <<>> THEN b
    ELSE IF b = <<>> THEN a
    ELSE IF a[Len(a)][1] = Head(b)[1]
         THEN SubSeq(a, 1, Len(a) - 1)
              \o <<<<Head(b)[1], a[Len(a)][2] + Head(b)[2]>>>> \o Tail(b)
         ELSE a \o b

\* text.split('\n\n'): a run of n newlines holds n \div 2 separators, found
\* left to right; an odd newline left over starts the next piece
RECURSIVE SplitBlank(_, _)
SplitBlank(t, piece) ==
    IF t = <<>> THEN <<piece>>
    ELSE IF Head(t)[1] = "n" /\ Head(t)[2] >= 2
         THEN <<piece>>
              \o [i \in 1..((Head(t)[2] \div 2) - 1) |-> <<>>]
              \o SplitBlank(Tail(t), IF Head(t)[2] % 2 = 1 THEN <<<<"n", 1>>>> ELSE <<>>)
         ELSE SplitBlank(Tail(t), Append(piece, Head(t)))

\* re.split(r'[.!?]+', para)
RECURSIVE SplitSentences(_, _)
SplitSentences(t, piece) ==
    IF t = <<>> THEN <<piece>>
    ELSE IF Head(t)[1] = "t"
         THEN <<piece>> \o SplitSentences(Tail(t), <<>>)
         ELSE SplitSentences(Tail(t), Append(piece, Head(t)))

MinParagraph == 50
MaxParagraph == 1000
SubChunkLimit == 800

\* chunks.append(DocumentChunk(content=current_chunk.strip(), ...)), done only
\* if current_chunk is not empty
Flush(out, current_chunk, page_num) ==
    IF current_chunk # <<>>
    THEN Append(out, DocumentChunk(Strip(current_chunk), page_num, "None"))
    ELSE out

\* current_chunk += ". " + sentence if current_chunk else sentence
Accumulate(current_chunk, sentence) ==
    IF current_chunk # <<>>
    THEN Concat(Concat(current_chunk, <<<<"t", 1>>, <<"s", 1>>>>), sentence)
    ELSE sentence

\* the loop over the sentences of a long paragraph, and the flush after it
RECURSIVE SentenceLoop(_, _, _, _, _)
SentenceLoop(sentences, i, current_chunk, out, page_num) ==
    IF i > Len(sentences) THEN Flush(out, current_chunk, page_num)
    ELSE IF Strip(sentences[i]) = <<>>
         THEN SentenceLoop(sentences, i + 1, current_chunk, out, page_num)
    ELSE IF TLen(Concat(current_chunk, Strip(sentences[i]))) > SubChunkLimit
         THEN SentenceLoop(sentences, i + 1, Strip(sentences[i]),
                           Flush(out, current_chunk, page_num), page_num)
    ELSE SentenceLoop(sentences, i + 1,
                      Accumulate(current_chunk, Strip(sentences[i])), out, page_num)

\* the body of the loop over the paragraphs, para already stripped
ParagraphChunks(para, page_num, out) ==
    IF TLen(para) < MinParagraph THEN out
    ELSE IF TLen(para) > MaxParagraph
         THEN SentenceLoop(SplitSentences(para, <<>>), 1, <<>>, out, page_num)
    ELSE Append(out, DocumentChunk(para, page_num, "None"))

RECURSIVE ParagraphLoop(_, _, _, _)
ParagraphLoop(paragraphs, i, page_num, out) ==
    IF i > Len(paragraphs) THEN out
    ELSE ParagraphLoop(paragraphs, i + 1, page_num,
                       ParagraphChunks(Strip(paragraphs[i]), page_num, out))

_split_into_chunks(t, page_num) ==
    ParagraphLoop(SplitBlank(t, <<>>), 1, page_num, <<>>)

\* the runs of t from position i on that are white space are skipped
RECURSIVE SkipWhite(_, _)
SkipWhite(t, i) ==
    IF i <= Len(t) /\ IsWhite(t[i]) THEN SkipWhite(t, i + 1) ELSE i

\* re.match(r'^[A-Z\s]+$', text)
AllCapsPattern(t) ==
    t # <<>> /\ \A i \in 1..Len(t) : t[i][1] \in {"U", "s", "n"}

\* re.match(r'^\d+\.\s+[A-Z]', text)
NumberedPattern(t) ==
    /\ Len(t) >= 4
    /\ t[1][1] = "d"
    /\ t[2] = <<"t", 1>>
    /\ IsWhite(t[3])
    /\ SkipWhite(t, 3) <= Len(t)
    /\ t[SkipWhite(t, 3)][1] = "U"

\* re.match(r'^[A-Z][a-z\s]+:$', text)
TitlePattern(t) ==
    /\ Len(t) >= 3
    /\ t[1] = <<"U", 1>>
    /\ t[Len(t)] = <<"c", 1>>
    /\ \A i \in 2..(Len(t) - 1) : t[i][1] \in {"l", "s", "n"}

\* text.isupper(): some cased character, and none of them lower-case
IsUpperText(t) ==
    /\ \E i \in 1..Len(t) : t[i][1] = "U"
    /\ \A i \in 1..Len(t) : t[i][1] # "l"

HeadingLen == 100

\* _is_heading(text), text already stripped
HeadingOfStripped(t) ==
    \/ AllCapsPattern(t)
    \/ NumberedPattern(t)
    \/ TitlePattern(t)
    \/ TLen(t) < HeadingLen /\ IsUpperText(t)

_is_heading(t) == HeadingOfStripped(Strip(t))

\* the body of the loop of _process_docx for a paragraph with text, whose
\* section is already decided
DocxChunk(para, section, out) ==
    Append(out, DocumentChunk(Strip(para), 1, section))

\* the loop over doc.paragraphs
RECURSIVE DocxLoop(_, _, _, _)
DocxLoop(paragraphs, i, current_section, out) ==
    IF i > Len(paragraphs) THEN out
    ELSE IF Strip(paragraphs[i]) = <<>>
         THEN DocxLoop(paragraphs, i + 1, current_section, out)
    ELSE IF _is_heading(paragraphs[i])
         THEN DocxLoop(paragraphs, i + 1, Strip(paragraphs[i]),
                       DocxChunk(paragraphs[i], Strip(paragraphs[i]), out))
    ELSE DocxLoop(paragraphs, i + 1, current_section,
                  DocxChunk(paragraphs[i], current_section, out))

_process_docx(paragraphs) == DocxLoop(paragraphs, 1, "Document", <<>>)

\* the loop over pdf_reader.pages; page i of the sequence is page_num + 1
RECURSIVE PdfLoop(_, _, _)
PdfLoop(pages, i, out) ==
    IF i > Len(pages) THEN out
    ELSE IF Strip(pages[i]) = <<>> THEN PdfLoop(pages, i + 1, out)
    ELSE PdfLoop(pages, i + 1, out \o _split_into_chunks(pages[i], i))

_process_pdf(pages) == PdfLoop(pages, 1, <<>>)

_process_text(content) == _split_into_chunks(content, 1)

-----------------------------------------------------------------------------
(* SpecChunk: the DocumentProcessor extracts the passages of any plain     *)
(* text, any PDF document (its pages' texts) and any DOCX document (its    *)
(* paragraphs' texts).                                                     *)

MaxRuns == 5
MaxPages == 2
MaxParagraphs == 2

RunPool ==
    {<<"l", 10>>, <<"l", 50>>, <<"l", 400>>, <<"l", 700>>, <<"l", 1500>>,
     <<"t", 1>>, <<"s", 1>>, <<"n", 1>>, <<"n", 2>>}

\* the texts of n runs
TextsOfRuns(n) ==
    { t \in [1..n -> RunPool] : \A i \in 1..(n - 1) : t[i][1] # t[i + 1][1] }

Texts == UNION { TextsOfRuns(n) : n \in 0..MaxRuns }

PagePool ==
    { <<>>,
      <<<<"n", 1>>>>,
      <<<<"l", 60>>>>,
      <<<<"l", 10>>, <<"n", 2>>, <<"l", 60>>>>,
      <<<<"l", 700>>, <<"t", 1>>, <<"s", 1>>, <<"l", 400>>>> }

PageLists == UNION { [1..n -> PagePool] : n \in 0..MaxPages }

ParagraphPool ==
    { <<>>,
      <<<<"s", 1>>>>,
      <<<<"l", 2>>>>,
      <<<<"U", 10>>>>,
      <<<<"U", 1>>, <<"l", 6>>, <<"s", 1>>, <<"l", 6>>, <<"c", 1>>>>,
      <<<<"d", 1>>, <<"t", 1>>, <<"s", 1>>, <<"U", 1>>, <<"l", 10>>>>,
      <<<<"U", 1>>, <<"l", 59>>, <<"t", 1>>>>,
      <<<<"l", 1500>>>> }

ParagraphLists == UNION { [1..n -> ParagraphPool] : n \in 0..MaxParagraphs }

\* the documents: a plain text, the texts of the pages of a PDF document, or
\* the texts of the paragraphs of a DOCX document
Documents ==
    { [format |-> "text", body |-> t] : t \in Texts }
    \cup { [format |-> "pdf", body |-> ps] : ps \in PageLists }
    \cup { [format |-> "docx", body |-> ps] : ps \in ParagraphLists }

InitChunk ==
    /\ op = "init" /\ raised = "None"
    /\ document \in Documents /\ doc_chunks = <<>>
    /\ query = "" /\ retrieved_clauses = <<>> /\ matched = <<>>
    /\ backend = "none" /\ encoder = <<>> /\ model = FALSE
    /\ chunks = <<>> /\ index = NoIndex /\ passages = <<>>
    /\ top_k = 0 /\ hits = <<>> /\ hit_pos = <<>>
    /\ build_called = FALSE /\ build_raised = "None" /\ NoSession

\* what no operation of the DocumentProcessor touches
ChunkFrame ==
    UNCHANGED <<document, query, retrieved_clauses, matched, searchVars, sessionVars>>

\* _process_text(content)
ProcessText ==
    /\ op = "init" /\ document.format = "text"
    /\ op' = "_process_text" /\ raised' = "None"
    /\ doc_chunks' = _process_text(document.body)
    /\ ChunkFrame

\* _process_pdf(content): PyPDF2 fails on the bytes, or yields the pages' texts
ProcessPdf ==
    /\ op = "init" /\ document.format = "pdf"
    /\ op' = "_process_pdf"
    /\ \/ raised' = "Exception" /\ doc_chunks' = <<>>
       \/ raised' = "None" /\ doc_chunks' = _process_pdf(document.body)
    /\ ChunkFrame

\* _process_docx(content): python-docx fails on the bytes, or yields the
\* paragraphs' texts
ProcessDocx ==
    /\ op = "init" /\ document.format = "docx"
    /\ op' = "_process_docx"
    /\ \/ raised' = "Exception" /\ doc_chunks' = <<>>
       \/ raised' = "None" /\ doc_chunks' = _process_docx(document.body)
    /\ ChunkFrame

\* s.endswith(suffix)
EndsWith(s, suffix) ==
    Len(s) >= Len(suffix) /\ SubSeq(s, Len(s) - Len(suffix) + 1, Len(s)) = suffix

\* the parser process_document hands the response to
Route(content_type, document_url) ==
    IF Contains("pdf", Lower(content_type)) \/ EndsWith(Lower(document_url), ".pdf")
    THEN "pdf"
    ELSE IF \/ Contains("word", Lower(content_type))
            \/ EndsWith(Lower(document_url), ".docx")
            \/ EndsWith(Lower(document_url), ".doc")
         THEN "docx"
    ELSE "text"

\* the content-type header of the response and the URL of the request
Sources ==
    { <<"application/pdf", "http://h/policy">>,
      <<"", "http://h/POLICY.PDF">>,
      <<"application/msword", "http://h/policy">>,
      <<"application/octet-stream", "http://h/policy.docx">>,
      <<"", "http://h/policy.doc">>,
      <<"text/plain", "http://h/policy.txt">>,
      <<"", "http://h/policy">> }

route_memo == [source \in Sources |-> Route(source[1], source[2])]

\* "Document processed but no readable content found."
Placeholder ==
    <<<<"U", 1>>, <<"l", 7>>, <<"s", 1>>, <<"l", 9>>, <<"s", 1>>, <<"l", 3>>,
      <<"s", 1>>, <<"l", 2>>, <<"s", 1>>, <<"l", 8>>, <<"s", 1>>, <<"l", 7>>,
      <<"s", 1>>, <<"l", 5>>, <<"t", 1>>>>

\* "Error processing document: "
ErrorPrefix ==
    <<<<"U", 1>>, <<"l", 4>>, <<"s", 1>>, <<"l", 10>>, <<"s", 1>>, <<"l", 8>>,
      <<"c", 1>>, <<"s", 1>>>>

\* "Error processing PDF: " and "Error processing DOCX: "
ParserPrefix(route) ==
    <<<<"U", 1>>, <<"l", 4>>, <<"s", 1>>, <<"l", 10>>, <<"s", 1>>,
      <<"U", IF route = "pdf" THEN 3 ELSE 4>>, <<"c", 1>>, <<"s", 1>>>>

\* str(e) of an exception of requests, PyPDF2 or python-docx
ErrorMessages == { <<>>, <<<<"d", 3>>, <<"s", 1>>, <<"U", 1>>, <<"l", 5>>>> }

\* the except branch of process_document
ErrorChunks(message) ==
    <<DocumentChunk(Concat(ErrorPrefix, message), 1, "None")>>

\* if not chunks: chunks = [the fallback chunk]
NoFallback(chunks_) == chunks_
Fallback(chunks_) ==
    IF chunks_ = <<>> THEN <<DocumentChunk(Placeholder, 1, "None")>> ELSE chunks_

\* what response.text holds when the response is not a text document
GarbledTexts == { <<>>, <<<<"l", 60>>>>, <<<<"l", 10>>, <<"n", 1>>, <<"d", 3>>>> }

\* the text process_document reads from a response routed to _process_text
ResponseTexts == IF document.format = "text" THEN {document.body} ELSE GarbledTexts

\* the chunks of a response that was routed to a parser that read it
Parsed(route, body) ==
    IF route = "pdf" THEN _process_pdf(body)
    ELSE IF route = "docx" THEN _process_docx(body)
    ELSE _process_text(body)

\* process_document(document_url): the download fails; or the response is
\* routed to a parser, which fails (always so on a document of another
\* format) or yields its chunks
ProcessDocument ==
    /\ op = "init"
    /\ op' = "process_document" /\ raised' = "None"
    /\ \E source \in Sources :
          \/ \E message \in ErrorMessages : doc_chunks' = ErrorChunks(message)
          \/ /\ route_memo[source] # "text"
             /\ \E message \in ErrorMessages :
                   doc_chunks' =
                       ErrorChunks(Concat(ParserPrefix(route_memo[source]), message))
          \/ /\ route_memo[source] # "text"
             /\ route_memo[source] = document.format
             /\ doc_chunks' = Fallback(Parsed(route_memo[source], document.body))
          \/ /\ route_memo[source] = "text"
             /\ \E t \in ResponseTexts : doc_chunks' = Fallback(Parsed("text", t))
    /\ ChunkFrame

NextChunk == ProcessText \/ ProcessPdf \/ ProcessDocx \/ ProcessDocument

SpecChunk == InitChunk /\ [][NextChunk]_vars

\* a text without a blank-line break: split('\n\n') leaves it in one piece
NoBlankLine(t) == \A i \in 1..Len(t) : ~(t[i][1] = "n" /\ t[i][2] >= 2)

\* C9: every passage the DocumentProcessor produces for any input text,
\* through _split_into_chunks for PDF and plain text and through _process_docx
\* for DOCX, has 50 <= len(content) <= 1000 (none of these operations produces
\* the placeholder passage).
C9_ChunkSizeBound ==
    (op \in {"_process_text", "_process_pdf", "_process_docx"} /\ raised = "None") =>
        \A j \in 1..Len(doc_chunks) :
            /\ MinParagraph <= TLen(doc_chunks[j].content)
            /\ TLen(doc_chunks[j].content) <= MaxParagraph

\* C10: for every paragraph longer than 1000 characters without a blank-line
\* break, _split_into_chunks emits at least 2 passages, each of them, the final
\* remainder included, at most 800 characters long.
C10_LongParagraphSplit ==
    (op = "_process_text" /\ NoBlankLine(document.body)
        /\ TLen(Strip(document.body)) > MaxParagraph) =>
        /\ Len(doc_chunks) >= 2
        /\ \A j \in 1..Len(doc_chunks) : TLen(doc_chunks[j].content) <= SubChunkLimit

\* the passages process_document substitutes for missing content
IsPlaceholder(chunk) ==
    \/ chunk.content = Placeholder
    \/ /\ Len(chunk.content) >= Len(ErrorPrefix)
       /\ SubSeq(chunk.content, 1, Len(ErrorPrefix) - 1)
              = SubSeq(ErrorPrefix, 1, Len(ErrorPrefix) - 1)

\* C11: process_document never raises and never returns an empty list: for
\* every outcome of download and extraction it returns at least one passage,
\* and a placeholder passage is returned only alone.
C11_NeverEmpty ==
    (op = "process_document") =>
        /\ raised = "None"
        /\ Len(doc_chunks) >= 1
        /\ (\E j \in 1..Len(doc_chunks) : IsPlaceholder(doc_chunks[j]))
              => Len(doc_chunks) = 1

\* C11 witness: a text with characters in which no paragraph survives the
\* length filter comes back as the single placeholder passage.
C11_Witness ==
    /\ op = "process_document"
    /\ document.format = "text" /\ TLen(Strip(document.body)) > 0
    /\ _process_text(document.body) = <<>>
    /\ doc_chunks = <<DocumentChunk(Placeholder, 1, "None")>>

-----------------------------------------------------------------------------
(* SpecTwin: two instances of the lexical backend, each with a matcher.    *)
(* The first is driven through any sequence of build_index, search and     *)
(* match_clauses calls; once it has returned from a match_clauses call the *)
(* second is driven through any sequence of its own (the instances share   *)
(* no state, so the order in which the two are driven does not matter).    *)

\* top_k of the request pipeline
PipelineTopK == 5

\* passages that differ in their section only, and one of another content
TwinPool ==
    { DocumentChunk(GracePassage, 1, "None"),
      DocumentChunk(GracePassage, 1, "Coverage"),
      DocumentChunk(CataractPassage, 2, "None") }

TwinPassageLists == UNION { [1..n -> TwinPool] : n \in 0..MaxPassages }
TwinQueries == {GraceQuery, PlainQuery}
TwinTopKs == {1, PipelineTopK}

\* EmbeddingSearchLite.__init__ of the second instance
FreshTwin ==
    [op |-> "init", chunks |-> <<>>, passages |-> <<>>, query |-> "", top_k |-> 0,
     hits |-> <<>>, matched |-> <<>>]

InitTwin ==
    /\ op = "init" /\ raised = "None"
    /\ backend = "lite" /\ encoder = <<>>
    /\ model = FALSE /\ chunks = <<>> /\ index = NoIndex /\ passages = <<>>
    /\ query = "" /\ top_k = 0 /\ hits = <<>> /\ hit_pos = <<>>
    /\ retrieved_clauses = <<>> /\ matched = <<>>
    /\ document = NoDocument /\ doc_chunks = <<>>
    /\ build_called = FALSE /\ build_raised = "None"
    /\ twin = FreshTwin /\ requests = <<>> /\ _system_initialized = FALSE
    /\ last_analysis = NoAnalysis /\ response = NoResponse

\* what the calls on the second instance leave alone
TwinFrame ==
    UNCHANGED <<op, raised, query, retrieved_clauses, matched, searchVars, chunkVars,
                requests, _system_initialized, last_analysis, response>>

\* the calls on the first instance
FirstBuildIndex(ps) == twin = FreshTwin /\ LiteBuildIndex(ps)
FirstSearch(q, k) == twin = FreshTwin /\ LiteSearch(q, k)
FirstMatch == twin = FreshTwin /\ MatchHits

\* EmbeddingSearchLite.build_index(ps) on the second instance
TwinBuildIndex(ps) ==
    /\ op = "match_clauses"
    /\ twin' = [FreshTwin EXCEPT !.op = "build_index", !.chunks = ps, !.passages = ps]
    /\ TwinFrame

\* EmbeddingSearchLite.search(q, k) on the second instance
TwinSearch(q, k) ==
    /\ op = "match_clauses"
    /\ twin' = [twin EXCEPT !.op = "search", !.query = q, !.top_k = k,
                            !.hits = MatchesOf(twin.chunks, lite_top_chunks(twin.chunks, q, k)),
                            !.matched = <<>>]
    /\ TwinFrame

\* match_clauses on the hits of the search the second instance just returned
TwinMatch ==
    /\ op = "match_clauses"
    /\ twin.op = "search"
    /\ twin' = [twin EXCEPT !.op = "match_clauses",
                            !.matched = match_clauses(twin.query, twin.hits)]
    /\ TwinFrame

NextTwin ==
    \/ \E ps \in TwinPassageLists : FirstBuildIndex(ps)
    \/ \E q \in TwinQueries : \E k \in TwinTopKs : FirstSearch(q, k)
    \/ FirstMatch
    \/ \E ps \in TwinPassageLists : TwinBuildIndex(ps)
    \/ \E q \in TwinQueries : \E k \in TwinTopKs : TwinSearch(q, k)
    \/ TwinMatch

SpecTwin == InitTwin /\ [][NextTwin]_vars

\* two passage sequences of identical content and page numbers
SameContentAndPages(ps, qs) ==
    /\ Len(ps) = Len(qs)
    /\ \A i \in 1..Len(ps) :
          ps[i].content = qs[i].content /\ ps[i].page_number = qs[i].page_number

\* C13: two runs of the lexical backend that build the index from passages of
\* identical content and page numbers and then run search and match_clauses
\* with the same query and top_k return the same hits and the same matched
\* clauses, in the same order, whatever each instance did before.
C13_Deterministic ==
    (/\ op = "match_clauses" /\ twin.op = "match_clauses"
     /\ SameContentAndPages(passages, twin.passages)
     /\ query = twin.query /\ top_k = twin.top_k) =>
        /\ retrieved_clauses = twin.hits
        /\ matched = twin.matched

\* C13 witness: the two runs were given passages that differ (in a section),
\* and both returned a matched clause.
C13_Witness ==
    /\ op = "match_clauses" /\ twin.op = "match_clauses"
    /\ SameContentAndPages(passages, twin.passages)
    /\ passages # twin.passages
    /\ query = twin.query /\ top_k = twin.top_k
    /\ Len(matched) >= 1

-----------------------------------------------------------------------------
(* SpecRequest: POST /hackrx/run (main_vercel.py with the lexical backend, *)
(* main_complex.py with the dense one).  The component instances and the   *)
(* flag _system_initialized are module-level; the answers, the hits and    *)
(* the position in the question list are local to one call of the handler. *)
(* A handler runs from one await to the next in one step, and the steps of *)
(* the requests in progress interleave.                                    *)

Requests == {1, 2}

\* the longest question list of a request
MaxQuestions == 2

\* what the Authorization header of a request carries
Credentials == {"valid", "wrong", "missing"}

\* the status HTTPBearer gives a request without bearer credentials: 403 up
\* to FastAPI 0.121, 401 since
BearerRejections == {401, 403}

\* request.documents, and what process_document returns for it
DocumentUrls == {"grace.pdf", "cataract.pdf"}

DocumentContent(url) ==
    IF url = "grace.pdf"
    THEN <<DocumentChunk(GracePassage, 1, "None"), DocumentChunk(DuePassage, 1, "None")>>
    ELSE <<DocumentChunk(CataractPassage, 1, "None")>>

\* request.questions
QuestionAt(i) == IF i % 2 = 1 THEN GraceQuery ELSE PlainQuery
QuestionLists == { [i \in 1..n |-> QuestionAt(i)] : n \in 0..MaxQuestions }

\* a request the server has accepted from the network and not looked at
Arrived(c, url, qs) ==
    [pc |-> "arrived", credentials |-> c, documents |-> url, questions |-> qs,
     document_content |-> <<>>, i |-> 1, relevant_clauses |-> <<>>,
     matched_clauses |-> <<>>, answers |-> <<>>, status |-> 0, detail |-> "",
     stages |-> <<>>, own_index |-> TRUE]

InitRequest ==
    /\ op = "init" /\ raised = "None"
    /\ \/ backend = "lite" /\ encoder = <<>>
       \/ backend = "dense" /\ encoder = EncoderA
    /\ model = FALSE /\ chunks = <<>> /\ index = NoIndex /\ passages = <<>>
    /\ query = "" /\ top_k = 0 /\ hits = <<>> /\ hit_pos = <<>>
    /\ retrieved_clauses = <<>> /\ matched = <<>>
    /\ document = NoDocument /\ doc_chunks = <<>>
    /\ build_called = FALSE /\ build_raised = "None"
    /\ twin = NoTwin
    /\ requests \in [Requests -> { Arrived(c, url, qs) : c \in Credentials,
                                      url \in DocumentUrls, qs \in QuestionLists }]
    /\ _system_initialized = FALSE
    /\ last_analysis = NoAnalysis /\ response = NoResponse

\* the steps that call neither build_index nor search
RequestFrame ==
    UNCHANGED <<op, raised, query, retrieved_clauses, matched, searchVars, chunkVars, twin,
                last_analysis, response>>

\* the statement sequence of the handler, swapped: search before build_index
StageAfterSwapped(stage) ==
    CASE stage = "process_document" -> "search"
      [] stage = "build_index" -> "search"
      [] stage = "search" -> "match_clauses"
      [] stage = "match_clauses" -> "evaluate_and_respond"
      [] stage = "evaluate_and_respond" -> "search"

\* the statement sequence of the handler: the stage that follows a stage
StageAfter(stage) ==
    CASE stage = "process_document" -> "build_index"
      [] stage = "build_index" -> "search"
      [] stage = "search" -> "match_clauses"
      [] stage = "match_clauses" -> "evaluate_and_respond"
      [] stage = "evaluate_and_respond" -> "search"

\* a stage of request record rec has returned
Staged(rec, stage) == [rec EXCEPT !.stages = Append(@, <<stage, rec.i>>)]

\* for question in request.questions: the next question, or
\* return QueryResponse(answers=answers)
NextQuestion(rec) ==
    IF rec.i > Len(rec.questions)
    THEN [rec EXCEPT !.pc = "done", !.status = 200]
    ELSE [rec EXCEPT !.pc = StageAfter("evaluate_and_respond")]

\* except Exception as e: raise HTTPException(status_code=500,
\* detail=f"Error processing queries: {str(e)}")
ServerError(rec, e) == [rec EXCEPT !.pc = "done", !.status = 500, !.detail = e]

\* the answer of the inner except branch is left out
AnswersDropped(answers, question, e) == answers

\* answers.append(f"Unable to process this question: {str(e)}")
AnswersAfterFailure(answers, question, e) ==
    Append(answers, [question |-> question, kind |-> "unable", detail |-> e])

\* Depends(verify_api_key), with HTTPBearer() before it
Authenticate(r) ==
    /\ requests[r].pc = "arrived"
    /\ \/ /\ requests[r].credentials = "valid"
          /\ requests' = [requests EXCEPT ![r].pc = "handler"]
       \/ /\ requests[r].credentials = "wrong"
          /\ requests' = [requests EXCEPT ![r].pc = "done", ![r].status = 401]
       \/ /\ requests[r].credentials = "missing"
          /\ \E s \in BearerRejections :
                requests' = [requests EXCEPT ![r].pc = "done", ![r].status = s]
    /\ UNCHANGED _system_initialized
    /\ RequestFrame

\* if not _system_initialized:
CheckInitialized(r) ==
    /\ requests[r].pc = "handler"
    /\ requests' = [requests EXCEPT ![r].pc =
                       IF _system_initialized THEN "process_document" ELSE "initialize"]
    /\ UNCHANGED _system_initialized
    /\ RequestFrame

\* await initialize_system(); _system_initialized = True
InitializeSystem(r) ==
    /\ requests[r].pc = "initialize"
    /\ \/ \* EmbeddingSearchLite.initialize is pass; the dense model loads
          /\ model' = (backend = "dense")
          /\ _system_initialized' = TRUE
          /\ requests' = [requests EXCEPT ![r].pc = "process_document"]
       \/ \* loading the dense model raises; initialize_system raises it again
          /\ backend = "dense"
          /\ UNCHANGED <<model, _system_initialized>>
          /\ requests' = [requests EXCEPT ![r] = ServerError(@, "ModelLoadError")]
    /\ UNCHANGED <<op, raised, query, retrieved_clauses, matched, backend, encoder,
                   chunks, index, passages, top_k, hits, hit_pos, build_called,
                   build_raised,
                   chunkVars, twin, last_analysis, response>>

\* the handler after process_document returned
AfterProcessDocument(rec) ==
    [Staged(rec, "process_document") EXCEPT
        !.document_content = DocumentContent(rec.documents),
        !.pc = StageAfter("process_document")]

\* document_content = await document_processor.process_document(request.documents)
RequestProcessDocument(r) ==
    /\ requests[r].pc = "process_document"
    /\ requests' = [requests EXCEPT ![r] = AfterProcessDocument(@)]
    /\ UNCHANGED _system_initialized
    /\ RequestFrame

\* the handler after build_index returned or raised e
AfterBuild(rec, e) ==
    IF e # "None" THEN ServerError(rec, e)
    ELSE NextQuestion([Staged(rec, "build_index") EXCEPT !.pc = StageAfter("build_index")])

\* await embedding_search.build_index(document_content)
RequestBuildIndex(r) ==
    /\ requests[r].pc = "build_index"
    /\ \/ lite_build_index(requests[r].document_content)
       \/ dense_build_index(requests[r].document_content)
    /\ requests' = [requests EXCEPT ![r] = AfterBuild(@, raised')]
    /\ UNCHANGED <<twin, _system_initialized, last_analysis, response>>

\* the handler after search returned found from the index holding cs, or
\* raised e
AfterSearch(rec, found, cs, e) ==
    IF e # "None"
    THEN NextQuestion([rec EXCEPT
            !.answers = AnswersAfterFailure(@, rec.questions[rec.i], e),
            !.i = @ + 1])
    ELSE [Staged(rec, "search") EXCEPT
            !.relevant_clauses = found,
            !.own_index = @ /\ cs = rec.document_content,
            !.pc = StageAfter("search")]

\* relevant_clauses = await embedding_search.search(question, top_k=5)
RequestSearch(r) ==
    /\ requests[r].pc = "search"
    /\ requests[r].i <= Len(requests[r].questions)
    /\ \/ lite_search(requests[r].questions[requests[r].i], PipelineTopK)
       \/ dense_search(requests[r].questions[requests[r].i], PipelineTopK)
    /\ requests' = [requests EXCEPT ![r] = AfterSearch(@, hits', chunks, raised')]
    /\ UNCHANGED <<twin, _system_initialized, last_analysis, response>>

\* the handler after match_clauses returned
AfterMatchClauses(rec) ==
    [Staged(rec, "match_clauses") EXCEPT
        !.matched_clauses = match_clauses(rec.questions[rec.i], rec.relevant_clauses),
        !.pc = StageAfter("match_clauses")]

\* matched_clauses = clause_matcher.match_clauses(question, relevant_clauses)
RequestMatchClauses(r) ==
    /\ requests[r].pc = "match_clauses"
    /\ requests' = [requests EXCEPT ![r] = AfterMatchClauses(@)]
    /\ UNCHANGED _system_initialized
    /\ RequestFrame

\* what evaluate_and_respond returns: the text of the language model, or the
\* text that reports its error
AnswerKinds == {"llm", "llm_error"}

\* the handler after evaluate_and_respond returned an answer of kind kind
AfterEvaluate(rec, kind) ==
    NextQuestion([Staged(rec, "evaluate_and_respond") EXCEPT
        !.answers = Append(@, [question |-> rec.questions[rec.i], kind |-> kind,
                               detail |-> IF rec.matched_clauses = <<>> THEN ""
                                          ELSE rec.matched_clauses[1].content]),
        !.i = @ + 1])

\* answer = await logic_evaluator.evaluate_and_respond(question, matched_clauses,
\* document_content); answers.append(answer)
RequestEvaluate(r) ==
    /\ requests[r].pc = "evaluate_and_respond"
    /\ \E kind \in AnswerKinds :
          requests' = [requests EXCEPT ![r] = AfterEvaluate(@, kind)]
    /\ UNCHANGED _system_initialized
    /\ RequestFrame

NextRequest ==
    \/ \E r \in Requests : Authenticate(r)
    \/ \E r \in Requests : CheckInitialized(r)
    \/ \E r \in Requests : InitializeSystem(r)
    \/ \E r \in Requests : RequestProcessDocument(r)
    \/ \E r \in Requests : RequestBuildIndex(r)
    \/ \E r \in Requests : RequestSearch(r)
    \/ \E r \in Requests : RequestMatchClauses(r)
    \/ \E r \in Requests : RequestEvaluate(r)

SpecRequest == InitRequest /\ [][NextRequest]_vars

\* C15: every authenticated request that is answered with status 200 carries
\* one answer per question, in the order of the questions, also when the
\* search of some question raised.
C15_OneAnswerPerQuestion ==
    \A r \in Requests :
        requests[r].status = 200 =>
            /\ requests[r].credentials = "valid"
            /\ Len(requests[r].answers) = Len(requests[r].questions)
            /\ \A i \in 1..Len(requests[r].answers) :
                  requests[r].answers[i].question = requests[r].questions[i]

\* C15 witness: a request answered with 200 whose second question failed in
\* search and whose first question was answered by the language model from a
\* matched clause.
C15_Witness ==
    \E r \in Requests :
        /\ requests[r].status = 200
        /\ Len(requests[r].questions) = 2
        /\ requests[r].answers[2].kind = "unable"
        /\ requests[r].answers[1].kind = "llm"
        /\ requests[r].answers[1].detail # ""

\* C16: a request without the valid API key as bearer token is answered with
\* 401, runs no stage of the pipeline, and leaves the shared index and the
\* initialization flag as they were.
C16_Unauthorized ==
    [][\A r \in Requests :
          (requests[r].credentials # "valid" /\ requests'[r] # requests[r]) =>
              /\ requests'[r].status = 401
              /\ requests'[r].stages = <<>>
              /\ UNCHANGED <<model, chunks, index, passages, _system_initialized>>]_vars

\* C18: no failure of build_index or search reaches the HTTP boundary: an
\* authenticated request is answered with 200, and a question whose search
\* failed still goes to the answer generator.
C18_RetrievalErrorsContained ==
    \A r \in Requests :
        (requests[r].pc = "done" /\ requests[r].credentials = "valid"
            /\ requests[r].detail # "ModelLoadError") =>
              /\ requests[r].status = 200
              /\ \A i \in 1..Len(requests[r].answers) :
                    requests[r].answers[i].kind # "unable"

InOrder(stages) ==
    \A j \in 1..Len(stages) :
        LET stage == stages[j][1]
            i == stages[j][2]
        IN  CASE stage = "process_document" -> j = 1
              [] stage = "build_index" -> j = 2 /\ stages[1][1] = "process_document"
              [] stage = "search" ->
                    /\ j >= 3 /\ stages[2][1] = "build_index"
                    /\ \A h \in 3..(j - 1) : stages[h][2] < i
              [] stage = "match_clauses" -> stages[j - 1] = <<"search", i>>
              [] stage = "evaluate_and_respond" -> stages[j - 1] = <<"match_clauses", i>>

\* C20: within one request the stages run in order, each after the one
\* before has returned; no search runs before the request's build_index has
\* returned.
C20_StageOrder == \A r \in Requests : InOrder(requests[r].stages)

\* C20 witness: a request has run all stages for two questions while the
\* other request was between its own stages.
C20_Witness ==
    \E r \in Requests : \E o \in Requests :
        /\ r # o
        /\ requests[r].status = 200
        /\ Len(requests[r].stages) = 8
        /\ requests[o].pc = "match_clauses"

-----------------------------------------------------------------------------
(* SpecScore: _analyze_query and _calculate_enhanced_score called on any   *)
(* query and any clause.                                                   *)

\* relevance_score: float of the clause handed in
ScoreValues == {<<-1, 2>>, Zero, <<1, 4>>, <<3, 4>>, One, <<3, 1>>}

ScoreClauses ==
    { ClauseMatch(c, v, "Page 1", "[Current] " \o c) : c \in ScoreContents, v \in ScoreValues }

InitScore ==
    /\ op = "init" /\ raised = "None"
    /\ query \in ScoreQueries
    /\ \E clause \in ScoreClauses : retrieved_clauses = <<clause>>
    /\ matched = <<>>
    /\ backend = "none" /\ encoder = <<>> /\ model = FALSE
    /\ chunks = <<>> /\ index = NoIndex /\ passages = <<>>
    /\ top_k = 0 /\ hits = <<>> /\ hit_pos = <<>>
    /\ document = NoDocument /\ doc_chunks = <<>>
    /\ build_called = FALSE /\ build_raised = "None" /\ NoSession

\* query_analysis = self._analyze_query(query), then the body of the loop
\* "Re-score clauses" for the one clause: matched holds the re-scored clause
CalculateEnhancedScore ==
    /\ op = "init"
    /\ matched' = EnhancedClauses(query, retrieved_clauses, analysis_memo[query])
    /\ op' = "_calculate_enhanced_score"
    /\ UNCHANGED <<raised, query, retrieved_clauses, searchVars, chunkVars, sessionVars>>

\* query_words = self._extract_keywords(query.lower()), then
\* score = self._calculate_similarity(query_words, chunk.content.lower()) for
\* the text of the clause: hits holds the text with that score
CalculateSimilarity ==
    /\ op = "init"
    /\ retrieved_clauses[1].content \in OverlapContents
    /\ hits' = <<ClauseMatch(retrieved_clauses[1].content,
                             similarity_memo[query][retrieved_clauses[1].content],
                             retrieved_clauses[1].source_location,
                             retrieved_clauses[1].context)>>
    /\ op' = "_calculate_similarity"
    /\ UNCHANGED <<raised, query, retrieved_clauses, matched, backend, encoder, model,
                   chunks, index, passages, top_k, hit_pos, build_called, build_raised,
                   chunkVars,
                   sessionVars>>

\* self._analyze_query(query) on its own
AnalyzeQuery ==
    /\ op = "init"
    /\ last_analysis' = analysis_memo[query]
    /\ op' = "_analyze_query"
    /\ UNCHANGED <<raised, query, retrieved_clauses, matched, searchVars, chunkVars,
                   twin, requests, _system_initialized, response>>

NextScore == CalculateEnhancedScore \/ CalculateSimilarity \/ AnalyzeQuery

SpecScore == InitScore /\ [][NextScore]_vars

\* the number of terms (each occurrence in the list counted) that occur in
\* the lowercased content
Occurring(terms, content) ==
    Cardinality({ k \in 1..Len(terms) : Contains(Lower(terms[k]), Lower(content)) })

\* min(matched / count * weight, cap), and 0 for an empty list
CappedShare(terms, content, weight, cap) ==
    IF Len(terms) = 0 THEN Zero
    ELSE RMin(RMul(Rat(Occurring(terms, content), Len(terms)), weight), cap)

\* the four bonuses the claim gives the analysis of the query and the clause
ClaimedBonus(analysis, content) ==
    [keyword_bonus |-> CappedShare(analysis.keywords, content, One, <<1, 2>>),
     entity_bonus |-> CappedShare(analysis.entities, content, <<3, 10>>, <<3, 10>>),
     domain_bonus |-> IF analysis.domain = "general" THEN Zero
                      ELSE CappedShare(DomainTerms(analysis.domain), content,
                                       <<1, 5>>, <<1, 5>>),
     type_bonus |-> IF analysis.question_type = "general" THEN Zero
                    ELSE CappedShare(type_indicators(analysis.question_type), content,
                                     <<1, 10>>, <<1, 10>>)]

\* 0.4*s + 0.25*kb + 0.15*eb + 0.10*db + 0.10*tb in twentieths
ClaimedSum(s, b) ==
    RMul(RAdd(RAdd(RMul(<<8, 1>>, s), RMul(<<5, 1>>, b.keyword_bonus)),
              RAdd(RMul(<<3, 1>>, b.entity_bonus),
                   RMul(<<2, 1>>, RAdd(b.domain_bonus, b.type_bonus)))),
         <<1, 20>>)

\* the claimed bonuses, tabulated over the bounded texts
claimed_memo ==
    [q \in ScoreQueries |->
        [content \in ScoreContents |-> ClaimedBonus(analysis_memo[q], content)]]

InRange(x, cap) == RLeq(Zero, x) /\ RLeq(x, cap)

\* the claimed bonuses are those computed, and each is within its range
BonusesAsClaimed(b, computed) ==
    /\ computed = b
    /\ InRange(b.keyword_bonus, <<1, 2>>) /\ InRange(b.entity_bonus, <<3, 10>>)
    /\ InRange(b.domain_bonus, <<1, 5>>) /\ InRange(b.type_bonus, <<1, 10>>)

\* C21: for every clause and query analysis _calculate_enhanced_score returns
\* min(1.0, 0.4*original + 0.25*keyword_bonus + 0.15*entity_bonus +
\* 0.10*domain_bonus + 0.10*type_bonus) with the bonuses the capped shares of
\* matched keywords, entities, domain terms and type indicators, each bonus
\* within [0, its cap].
C21_CompositeFormula ==
    op = "_calculate_enhanced_score" =>
        /\ matched[1].relevance_score =
              RMin(One, ClaimedSum(retrieved_clauses[1].relevance_score,
                                   claimed_memo[query][retrieved_clauses[1].content]))
        /\ BonusesAsClaimed(claimed_memo[query][retrieved_clauses[1].content],
                            bonus_memo[analysis_memo[query]][retrieved_clauses[1].content])

\* all four bonuses are above 0 and the keyword bonus is at its cap
AllBonuses(b) ==
    /\ b.keyword_bonus = <<1, 2>>
    /\ RLess(Zero, b.entity_bonus)
    /\ RLess(Zero, b.domain_bonus) /\ RLess(Zero, b.type_bonus)

\* C21 witness: a clause with all four bonuses above 0 and the keyword bonus
\* at its cap, whose weighted sum is above 1 and is capped.
C21_Witness ==
    /\ op = "_calculate_enhanced_score"
    /\ AllBonuses(bonus_memo[analysis_memo[query]][retrieved_clauses[1].content])
    /\ retrieved_clauses[1].relevance_score = <<3, 1>>
    /\ matched[1].relevance_score = One

\* the tokens of a text as the claim defines them: the words of the
\* lowercased text that are no stop words and longer than 2 characters
ClaimedTokens(s) ==
    SelectSeq(FindWords(Lower(s), 1), LAMBDA w : w \notin stop_words /\ Len(w) >= 3)

\* query token i equals some passage token
ExactToken(qt, pt, i) == \E j \in 1..Len(pt) : qt[i] = pt[j]

\* query token i contains or is contained in some passage token
OverlapToken(qt, pt, i) ==
    \E j \in 1..Len(pt) : Contains(qt[i], pt[j]) \/ Contains(pt[j], qt[i])

\* N, E and S of the claim for token lists qt and pt
OverlapCounts(qt, pt) ==
    [N |-> Len(qt),
     T |-> Len(pt),
     E |-> Cardinality({ i \in 1..Len(qt) : ExactToken(qt, pt, i) }),
     S |-> Cardinality({ i \in 1..Len(qt) :
                            ~ExactToken(qt, pt, i) /\ OverlapToken(qt, pt, i) })]

\* the counts of the claim, tabulated over the bounded texts
overlap_memo ==
    [q \in ScoreQueries |->
        [content \in OverlapContents |->
            OverlapCounts(ClaimedTokens(q), ClaimedTokens(content))]]

\* (E + 0.5*S) / N, and 0 when N = 0 or the passage has no tokens
ClaimedOverlap(c) ==
    IF c.N = 0 \/ c.T = 0 THEN Zero ELSE Rat(2 * c.E + c.S, 2 * c.N)

\* C22: for every query and passage the lexical-overlap score is
\* (E + 0.5*S) / N over the query tokens left after lowercasing, stop-word
\* removal and dropping tokens of length <= 2; it is 0 when N = 0 or the
\* passage has no tokens, and lies in [0, 1].
C22_OverlapFormula ==
    op = "_calculate_similarity" =>
        /\ hits[1].relevance_score =
              ClaimedOverlap(overlap_memo[query][retrieved_clauses[1].content])
        /\ InRange(hits[1].relevance_score, One)

\* C22 witness: a query with an exact match, a partial match and a token
\* without match in the passage.
C22_Witness ==
    /\ op = "_calculate_similarity"
    /\ overlap_memo[query][retrieved_clauses[1].content].E >= 1
    /\ overlap_memo[query][retrieved_clauses[1].content].S >= 1
    /\ RLess(hits[1].relevance_score, One)

\* every hit is a passage of the list ps
OnlyPassagesOf(found, ps) ==
    \A j \in 1..Len(found) :
        \E i \in 1..Len(ps) :
            /\ found[j].content = ps[i].content
            /\ found[j].source_location = source_location(ps[i])

\* C23: build_index replaces any prior index: after the last build_index call
\* has returned, whatever was built before, every search returns only
\* passages of that call's list and get_chunk_statistics reports the count of
\* that list, on both backends.
C23_BuildReplaces ==
    (build_called /\ build_raised = "None" /\ op \in {"build_index", "search"}) =>
        /\ get_chunk_statistics(chunks).total_chunks = Len(passages)
        /\ (op = "search" /\ raised = "None") => OnlyPassagesOf(hits, passages)

\* C23 witness: a search for the Grace query on an index built from the
\* Cataract passage alone returns that passage.
C23_Witness ==
    /\ build_called /\ build_raised = "None"
    /\ op = "search" /\ raised = "None"
    /\ query = GraceQuery
    /\ Len(passages) = 1 /\ passages[1].content = CataractPassage
    /\ Len(hits) = 1
    /\ get_chunk_statistics(chunks).total_chunks = 1

-----------------------------------------------------------------------------
(* SpecContext: _get_context called for any position of any stored passage *)
(* list, on either backend.                                                *)

\* the longest stored passage list
MaxIndexed == 3

\* passages shorter and longer than the truncation
ContextPool ==
    { DocumentChunk(GracePassage, 1, "None"),
      DocumentChunk(AllTermsPassage, 2, "None"),
      DocumentChunk(CataractPassage, 0, "None") }

ContextLists == UNION { [1..n -> ContextPool] : n \in 1..MaxIndexed }

InitContext ==
    /\ op = "init" /\ raised = "None"
    /\ backend \in {"lite", "dense"} /\ encoder = <<>> /\ model = FALSE
    /\ chunks \in ContextLists /\ passages = chunks /\ index = NoIndex
    /\ hit_pos \in { <<i>> : i \in 1..MaxIndexed } /\ hit_pos[1] <= Len(chunks)
    /\ query = "" /\ top_k = 0 /\ hits = <<>>
    /\ retrieved_clauses = <<>> /\ matched = <<>>
    /\ document = NoDocument /\ doc_chunks = <<>>
    /\ build_called = TRUE /\ build_raised = "None" /\ NoSession

\* context=self._get_context(idx) for the stored passage at position idx:
\* hits holds the ClauseMatch made for it
GetContext ==
    /\ op = "init"
    /\ hits' = MatchesOf(chunks, << <<hit_pos[1], One>> >>)
    /\ op' = "_get_context"
    /\ UNCHANGED <<raised, query, retrieved_clauses, matched, backend, encoder, model,
                   chunks, index, passages, top_k, hit_pos, build_called, build_raised,
                   chunkVars, sessionVars>>

NextContext == GetContext

SpecContext == InitContext /\ [][NextContext]_vars

\* the first 100 characters of a text
First100(text) == IF Len(text) > 100 THEN SubSeq(text, 1, 100) ELSE text

\* the context the claim describes for position i (counted from 1) of the
\* stored list cs: Previous exactly when a passage precedes, Current, Next
\* exactly when a passage follows
ClaimedContext(cs, i) ==
    (IF i > 1 THEN "[Previous] " \o First100(cs[i - 1].content) \o "... " ELSE "")
    \o "[Current] " \o cs[i].content
    \o (IF i < Len(cs) THEN " [Next] " \o First100(cs[i + 1].content) \o "..." ELSE "")

\* C24: the context of a hit at position i of n stored passages is made, in
\* this order, of the first 100 characters of passage i-1 labeled Previous
\* (exactly when i > 0), the full passage i labeled Current and the first 100
\* characters of passage i+1 labeled Next (exactly when i < n-1), on both
\* backends.
C24_ContextAssembly ==
    op = "_get_context" =>
        /\ Len(hits) = 1
        /\ hits[1].context = ClaimedContext(chunks, hit_pos[1])

\* C24 witness: a hit in the middle of three passages whose neighbours are
\* one longer and one shorter than 100 characters.
C24_Witness ==
    /\ op = "_get_context"
    /\ Len(chunks) = 3 /\ hit_pos[1] = 2
    /\ Len(chunks[1].content) > 100 /\ Len(chunks[3].content) < 100
    /\ Len(hits[1].context) > 100 + Len(chunks[2].content)

-----------------------------------------------------------------------------
(* Query analysis by first match.                                          *)

\* the vocabulary terms of the d-th domain
Vocabulary(d) ==
    UNION { { domain_keywords[d].categories[c][k] :
                k \in 1..Len(domain_keywords[d].categories[c]) } :
            c \in 1..Len(domain_keywords[d].categories) }

\* some term of the set occurs in the lowercased query
SomeOccurs(terms, q) == \E t \in terms : Contains(t, Lower(q))

FactualCues == {"what", "which", "how much", "how many"}
BooleanCues == {"does", "is", "are", "can", "will"}
ExplanatoryCues == {"how", "why", "when", "where"}

\* the analysis the claim describes, for each query
claimed_analysis ==
    [q \in ScoreQueries |->
        LET has == [d \in 1..3 |-> SomeOccurs(Vocabulary(d), q)]
            first == IF has[1] THEN 1 ELSE IF has[2] THEN 2 ELSE IF has[3] THEN 3 ELSE 0
        IN  [domain |-> IF first = 1 THEN "insurance"
                        ELSE IF first = 2 THEN "legal"
                        ELSE IF first = 3 THEN "hr" ELSE "general",
             terms |-> IF first = 0 THEN {} ELSE Vocabulary(first),
             domains |-> Cardinality({ d \in 1..3 : has[d] }),
             question_type |->
                 IF SomeOccurs(FactualCues, q) THEN "factual"
                 ELSE IF SomeOccurs(BooleanCues, q) THEN "boolean"
                 ELSE IF SomeOccurs(ExplanatoryCues, q) THEN "explanatory"
                 ELSE "general",
             cues |-> Cardinality({ c \in {FactualCues, BooleanCues, ExplanatoryCues} :
                                     SomeOccurs(c, q) })]]

\* C25: the domain is the first of insurance, legal, hr with a vocabulary term
\* occurring in the lowercased query, else general; the keywords are terms of
\* the chosen domain only; the question type is factual if a factual cue
\* occurs, else boolean, else explanatory, else general.
C25_FirstMatch ==
    op = "_analyze_query" =>
        /\ last_analysis.domain = claimed_analysis[query].domain
        /\ \A k \in 1..Len(last_analysis.keywords) :
               last_analysis.keywords[k] \in claimed_analysis[query].terms
        /\ last_analysis.question_type = claimed_analysis[query].question_type

\* C25 witness: a query with terms of two domains and cues of two question
\* types, analysed as the earlier domain and the earlier type.
C25_Witness ==
    /\ op = "_analyze_query"
    /\ claimed_analysis[query].domains >= 2 /\ claimed_analysis[query].cues >= 2
    /\ last_analysis.domain = "legal" /\ Len(last_analysis.keywords) > 0
    /\ last_analysis.question_type = "factual"

-----------------------------------------------------------------------------
(* SpecCalls: match_clauses called twice by a caller that keeps its list.  *)

\* the caller's list after a call that wrote each enhanced score into the
\* clause it was computed for
RescoredInPlace(q, retrieved) == EnhancedClauses(q, retrieved, analysis_memo[q])

\* the caller's list after match_clauses returned: the loop reads each clause
\* and builds a new ClauseMatch, the sort and the filter work on the new list
RetrievedAfter(q, retrieved) == retrieved

\* the first call; hits keeps the list as the caller passed it
FirstCall ==
    /\ op = "init"
    /\ hits' = retrieved_clauses
    /\ matched' = match_clauses(query, retrieved_clauses)
    /\ retrieved_clauses' = RetrievedAfter(query, retrieved_clauses)
    /\ op' = "match_clauses"
    /\ UNCHANGED <<raised, query, backend, encoder, model, chunks, index, passages,
                   top_k, hit_pos, build_called, build_raised, chunkVars, sessionVars>>

\* a second call on the same matcher with the query and the list of the
\* first; doc_chunks keeps what the first call returned
SecondCall ==
    /\ op = "match_clauses"
    /\ doc_chunks' = matched
    /\ matched' = match_clauses(query, retrieved_clauses)
    /\ retrieved_clauses' = RetrievedAfter(query, retrieved_clauses)
    /\ op' = "match_clauses again"
    /\ UNCHANGED <<raised, query, searchVars, document, sessionVars>>

NextCalls == FirstCall \/ SecondCall

SpecCalls == InitRank /\ [][NextCalls]_vars

\* hit c is hit d with at most the relevance_score replaced
SameButScore(c, d) ==
    /\ c.content = d.content
    /\ c.source_location = d.source_location
    /\ c.context = d.context

\* C26: match_clauses returns a list for every query and every input list,
\* the empty one included, leaves the input list and its hits as they were,
\* answers a repeated call as it answered the first, and every hit it returns
\* has the content, source_location and context of one input hit.
C26_NoSideEffects ==
    op \in {"match_clauses", "match_clauses again"} =>
        /\ raised = "None"
        /\ retrieved_clauses = hits
        /\ \A j \in 1..Len(matched) :
               \E i \in 1..Len(hits) : SameButScore(matched[j], hits[i])
        /\ Len(hits) = 0 => matched = <<>>
        /\ op = "match_clauses again" => matched = doc_chunks

\* C26 witness: a second call on a list of two hits whose scores the first
\* call replaced in the hits it returned.
C26_Witness ==
    /\ op = "match_clauses again"
    /\ Len(hits) = 2 /\ Len(matched) = 2
    /\ \A j \in 1..2 : \A i \in 1..2 : matched[j].relevance_score # hits[i].relevance_score

-----------------------------------------------------------------------------
(* SpecEvaluate: LogicEvaluator.evaluate_and_respond on any query and any  *)
(* clause list, whatever the language-model call does.                     *)

\* what a function call did: returned a value, or raised
Returned(v) == [raised |-> FALSE, value |-> v]
Raised(e) == [raised |-> TRUE, value |-> e]

\* what happens inside _generate_llm_response: GEMINI_API_KEY is not set, or
\* self.model.generate_content raises, or it returns a response with a text
LlmOutcomes ==
    { [kind |-> "unconfigured", text |-> ""],
      [kind |-> "raises", text |-> "429 Resource has been exhausted"],
      [kind |-> "raises", text |-> "503 The model is overloaded"],
      [kind |-> "text", text |-> " Yes, a grace period of thirty days applies.\n"] }

\* str.strip() of a text
RECURSIVE StripText(_)
StripText(t) ==
    IF t = "" THEN ""
    ELSE IF IsSpace(Ch(t, 1)) THEN StripText(SubSeq(t, 2, Len(t)))
    ELSE IF IsSpace(Ch(t, Len(t))) THEN StripText(SubSeq(t, 1, Len(t) - 1))
    ELSE t

\* _generate_llm_response(user_prompt): the except branch returns a text
_generate_llm_response(outcome) ==
    IF outcome.kind = "unconfigured"
    THEN Returned("API key not configured. Please set GEMINI_API_KEY in your .env file.")
    ELSE IF outcome.kind = "raises"
    THEN Returned("Gemini API error: " \o outcome.text
                  \o ". Please check your API key and try again.")
    ELSE Returned(StripText(outcome.text))

\* _generate_fallback_response(query, matched_clauses)
_generate_fallback_response(q, matched_clauses) ==
    IF Len(matched_clauses) = 0
    THEN "I couldn't find relevant information in the document to answer your question."
    ELSE LET primary_clause == matched_clauses[1]
             query_lower == Lower(q)
         IN  IF AnyIn(<<"does", "is", "are", "can">>, query_lower)
             THEN IF AnyIn(<<"cover", "include", "eligible">>, Lower(primary_clause.content))
                  THEN "Based on the policy document: "
                       \o Prefix(primary_clause.content, 200) \o "..."
                  ELSE "According to the document: "
                       \o Prefix(primary_clause.content, 200) \o "..."
             ELSE "Based on the policy information: "
                  \o Prefix(primary_clause.content, 300) \o "..."

\* evaluate_and_respond(query, matched_clauses, document_content):
\* _prepare_context and _create_user_prompt format strings and do not raise
evaluate_and_respond(q, matched_clauses, outcome) ==
    LET llm == _generate_llm_response(outcome)
    IN  IF llm.raised THEN _generate_fallback_response(q, matched_clauses)
        ELSE llm.value

\* the lists clause_matcher hands over: empty, one clause, two clauses
EvaluatedLists ==
    { <<>> } \cup
    { <<ClauseMatch(c, One, "Page 1", "[Current] " \o c)>> : c \in ScoreContents } \cup
    { <<ClauseMatch(GracePassage, One, "Page 1", "[Current] " \o GracePassage),
        ClauseMatch(c, <<3, 4>>, "Page 2", "[Current] " \o c)>> : c \in Contents }

InitEvaluate ==
    /\ op = "init" /\ raised = "None"
    /\ query \in ScoreQueries
    /\ matched \in EvaluatedLists
    /\ retrieved_clauses = <<>>
    /\ backend = "none" /\ encoder = <<>> /\ model = FALSE
    /\ chunks = <<>> /\ index = NoIndex /\ passages = <<>>
    /\ top_k = 0 /\ hits = <<>> /\ hit_pos = <<>>
    /\ document = NoDocument /\ doc_chunks = <<>>
    /\ build_called = FALSE /\ build_raised = "None" /\ NoSession

\* answer = await logic_evaluator.evaluate_and_respond(question, matched_clauses,
\* document_content)
EvaluateAndRespond ==
    /\ op = "init"
    /\ \E outcome \in LlmOutcomes :
          response' = [text |-> evaluate_and_respond(query, matched, outcome),
                       llm |-> outcome.kind]
    /\ op' = "evaluate_and_respond"
    /\ UNCHANGED <<raised, query, retrieved_clauses, matched, searchVars, chunkVars,
                   twin, requests, _system_initialized, last_analysis>>

NextEvaluate == EvaluateAndRespond

SpecEvaluate == InitEvaluate /\ [][NextEvaluate]_vars

\* the fixed sentence of the fallback
NotFoundSentence ==
    "I couldn't find relevant information in the document to answer your question."

\* C27: when the language-model call raises, evaluate_and_respond returns the
\* rule-based fallback: the fixed "couldn't find relevant information"
\* sentence for an empty clause list, else a sentence built from the content
\* of matched_clauses[0].
C27_FallbackOnFailure ==
    (op = "evaluate_and_respond" /\ response.llm = "raises") =>
        IF Len(matched) = 0 THEN response.text = NotFoundSentence
        ELSE Contains(Prefix(matched[1].content, 200), response.text)

-----------------------------------------------------------------------------
(* The dense index and its passage list across failed builds.              *)

\* C29: on the dense backend, after any sequence of build_index calls, those
\* that raise part-way included, the index holds one vector per stored
\* passage and vector i was computed from stored passage i; a search after a
\* failed build pairs no score of the old index with a passage of the new
\* list.
C29_IndexConsistent ==
    backend = "dense" =>
        /\ index.built =>
              /\ Len(index.vectors) = Len(chunks)
              /\ \A i \in 1..Len(chunks) : index.vectors[i] = encoder[chunks[i].content]
        /\ (op = "search" /\ raised = "None" /\ build_raised # "None") =>
              \A j \in 1..Len(hits) :
                  hits[j].relevance_score = ScoreOf(chunks[hit_pos[j]])

-----------------------------------------------------------------------------
(* Python floats: IEEE-754 doubles, every operation rounded to the nearest *)
(* double, ties to even.  A natural number is a sequence of limbs, least   *)
(* significant first; a double is mantissa * 2^exponent with a mantissa of *)
(* 53 bits.  Only doubles >= 0 in the normal range are needed.             *)

\* the bits of the mantissa of a double
MantissaBits == 53

\* the bits of a limb
LimbBits == 15

RECURSIVE Pow2(_)
Pow2(n) == IF n = 0 THEN 1 ELSE 2 * Pow2(n - 1)

Base == Pow2(LimbBits)

\* a natural number without leading zero limbs
RECURSIVE BTrim(_)
BTrim(x) ==
    IF Len(x) > 0 /\ x[Len(x)] = 0 THEN BTrim(SubSeq(x, 1, Len(x) - 1)) ELSE x

Limb(x, i) == IF i <= Len(x) THEN x[i] ELSE 0

RECURSIVE BAddFrom(_, _, _, _)
BAddFrom(x, y, i, carry) ==
    IF i > Len(x) /\ i > Len(y) THEN (IF carry = 0 THEN <<>> ELSE <<carry>>)
    ELSE LET s == Limb(x, i) + Limb(y, i) + carry
         IN  <<s % Base>> \o BAddFrom(x, y, i + 1, s \div Base)

\* x + y
BAdd(x, y) == BAddFrom(x, y, 1, 0)

RECURSIVE BMulSmallFrom(_, _, _, _)
BMulSmallFrom(x, k, i, carry) ==
    IF i > Len(x) THEN (IF carry = 0 THEN <<>> ELSE <<carry>>)
    ELSE LET p == x[i] * k + carry
         IN  <<p % Base>> \o BMulSmallFrom(x, k, i + 1, p \div Base)

\* x * k for a k below Base
BMulSmall(x, k) == BTrim(BMulSmallFrom(x, k, 1, 0))

\* n zero limbs
Zeros(n) == [i \in 1..n |-> 0]

RECURSIVE BMulFrom(_, _, _)
BMulFrom(x, y, i) ==
    IF i > Len(y) THEN <<>>
    ELSE BAdd(Zeros(i - 1) \o BMulSmall(x, y[i]), BMulFrom(x, y, i + 1))

\* x * y
BMul(x, y) == BTrim(BMulFrom(x, y, 1))

\* quotient and remainder of the limbs 1..i of x, with rem carried in from
\* above, by an n below Base
RECURSIVE BDivFrom(_, _, _, _)
BDivFrom(x, n, i, rem) ==
    IF i = 0 THEN [q |-> <<>>, r |-> rem]
    ELSE LET cur == rem * Base + x[i]
             rest == BDivFrom(x, n, i - 1, cur % n)
         IN  [q |-> Append(rest.q, cur \div n), r |-> rest.r]

BDivSmall(x, n) ==
    LET d == BDivFrom(x, n, Len(x), 0) IN [q |-> BTrim(d.q), r |-> d.r]

\* x * 2^s
BShl(x, s) ==
    IF x = <<>> THEN <<>>
    ELSE Zeros(s \div LimbBits) \o BMulSmall(x, Pow2(s % LimbBits))

\* x \div 2^s
BShr(x, s) ==
    IF s \div LimbBits >= Len(x) THEN <<>>
    ELSE BDivSmall(SubSeq(x, s \div LimbBits + 1, Len(x)), Pow2(s % LimbBits)).q

RECURSIVE BitLenSmall(_)
BitLenSmall(d) == IF d = 0 THEN 0 ELSE 1 + BitLenSmall(d \div 2)

\* the number of bits of x
BBitLen(x) == IF x = <<>> THEN 0 ELSE LimbBits * (Len(x) - 1) + BitLenSmall(x[Len(x)])

BIsOdd(x) == Len(x) > 0 /\ x[1] % 2 = 1

\* x < y on the limbs i..1
RECURSIVE BLessFrom(_, _, _)
BLessFrom(x, y, i) ==
    IF i = 0 THEN FALSE
    ELSE IF x[i] # y[i] THEN x[i] < y[i]
    ELSE BLessFrom(x, y, i - 1)

BLess(x, y) ==
    IF Len(x) # Len(y) THEN Len(x) < Len(y) ELSE BLessFrom(x, y, Len(x))

FZero == [m |-> <<>>, e |-> 0]

\* the double nearest to x * 2^e, ties to even
Rounded(x, e) ==
    IF x = <<>> THEN FZero
    ELSE LET len == BBitLen(x)
         IN  IF len <= MantissaBits
             THEN [m |-> BShl(x, MantissaBits - len), e |-> e - (MantissaBits - len)]
             ELSE LET s == len - MantissaBits
                      with_round_bit == BShr(x, s - 1)
                      sticky == BShl(with_round_bit, s - 1) # x
                      q == BShr(with_round_bit, 1)
                      up == BIsOdd(with_round_bit) /\ (sticky \/ BIsOdd(q))
                      r == IF up THEN BTrim(BAdd(q, <<1>>)) ELSE q
                  IN  IF BBitLen(r) > MantissaBits
                      THEN [m |-> BShr(r, 1), e |-> e + s + 1]
                      ELSE [m |-> r, e |-> e + s]

\* a * b
FMul(a, b) ==
    IF a = FZero \/ b = FZero THEN FZero ELSE Rounded(BMul(a.m, b.m), a.e + b.e)

\* a + b
FAdd(a, b) ==
    IF a = FZero THEN b
    ELSE IF b = FZero THEN a
    ELSE LET e == IF a.e < b.e THEN a.e ELSE b.e
         IN  Rounded(BTrim(BAdd(BShl(a.m, a.e - e), BShl(b.m, b.e - e))), e)

\* m / n for naturals m < Base and 0 < n < Base; also the double a decimal
\* literal m/n is read as
FDiv(m, n) ==
    IF m = 0 THEN FZero
    ELSE LET d == BDivSmall(BShl(<<m>>, 5 * LimbBits), n)
             inexact == IF d.r # 0 THEN <<1>> ELSE <<>>
         IN  Rounded(BTrim(BAdd(BMulSmall(d.q, 2), inexact)), -(5 * LimbBits + 1))

\* a < b
FLess(a, b) ==
    IF b = FZero THEN FALSE
    ELSE IF a = FZero THEN TRUE
    ELSE IF a.e # b.e THEN a.e < b.e
    ELSE BLess(a.m, b.m)

\* min(a, b)
FMin(a, b) == IF FLess(b, a) THEN b ELSE a

-----------------------------------------------------------------------------
(* SpecFloat: the re-scoring of one hit in the floats of the code.         *)

\* the double a score given as a fraction n/d stands for
FloatOf(r) == FDiv(r[1], r[2])

\* _calculate_keyword_bonus in doubles
_calculate_keyword_bonus_float(keywords, content) ==
    IF Len(keywords) = 0 THEN FZero
    ELSE LET content_lower == Lower(content)
             matches == CountIf(keywords, LAMBDA keyword : Contains(keyword, content_lower), 1)
         IN  FMin(FDiv(matches, Len(keywords)), FDiv(5, 10))

\* _calculate_entity_bonus in doubles
_calculate_entity_bonus_float(entities, content) ==
    IF Len(entities) = 0 THEN FZero
    ELSE LET content_lower == Lower(content)
             matches == CountIf(entities, LAMBDA entity : Contains(Lower(entity), content_lower), 1)
         IN  FMin(FMul(FDiv(matches, Len(entities)), FDiv(3, 10)), FDiv(3, 10))

\* _calculate_domain_bonus in doubles
_calculate_domain_bonus_float(domain, content) ==
    IF domain = "general" THEN FZero
    ELSE LET domain_terms == DomainTerms(domain)
             content_lower == Lower(content)
             matches == CountIf(domain_terms, LAMBDA term : Contains(term, content_lower), 1)
             size == IF Len(domain_terms) > 1 THEN Len(domain_terms) ELSE 1
         IN  FMin(FMul(FDiv(matches, size), FDiv(2, 10)), FDiv(2, 10))

\* _calculate_type_bonus in doubles
_calculate_type_bonus_float(question_type, content) ==
    LET content_lower == Lower(content)
        indicators == type_indicators(question_type)
    IN  IF Len(indicators) > 0
        THEN LET matches == CountIf(indicators,
                                    LAMBDA indicator : Contains(indicator, content_lower), 1)
             IN  FMin(FMul(FDiv(matches, Len(indicators)), FDiv(1, 10)), FDiv(1, 10))
        ELSE FZero

\* the four bonuses in doubles, tabulated over the texts of the bounded inputs
float_bonus_memo ==
    [q \in ScoreQueries |->
        [content \in ScoreContents |->
            [keyword_bonus |->
                 _calculate_keyword_bonus_float(analysis_memo[q].keywords, content),
             entity_bonus |->
                 _calculate_entity_bonus_float(analysis_memo[q].entities, content),
             domain_bonus |->
                 _calculate_domain_bonus_float(analysis_memo[q].domain, content),
             type_bonus |->
                 _calculate_type_bonus_float(analysis_memo[q].question_type, content)]]]

\* base_score * 0.4 + keyword_bonus * 0.25 + entity_bonus * 0.15
\* + domain_bonus * 0.1 + type_bonus * 0.1, added from left to right
WeightedSumFloat(base_score, bonus) ==
    FAdd(FAdd(FAdd(FAdd(FMul(base_score, FDiv(4, 10)),
                        FMul(bonus.keyword_bonus, FDiv(25, 100))),
                   FMul(bonus.entity_bonus, FDiv(15, 100))),
              FMul(bonus.domain_bonus, FDiv(1, 10))),
         FMul(bonus.type_bonus, FDiv(1, 10)))

\* _calculate_enhanced_score in doubles
_calculate_enhanced_score_float(q, clause) ==
    FMin(WeightedSumFloat(FloatOf(clause.relevance_score),
                          float_bonus_memo[q][clause.content]),
         FDiv(1, 1))

\* the original scores, as fractions: 0.0, 0.2, 0.25, 0.5, 0.75, 1.0
FloatScores == {Zero, <<1, 5>>, <<1, 4>>, <<1, 2>>, <<3, 4>>, One}

InitFloat ==
    /\ op = "init" /\ raised = "None"
    /\ query \in ScoreQueries
    /\ \E c \in ScoreContents, v \in FloatScores :
          retrieved_clauses = <<ClauseMatch(c, v, "Page 1", "[Current] " \o c)>>
    /\ matched = <<>>
    /\ backend = "none" /\ encoder = <<>> /\ model = FALSE
    /\ chunks = <<>> /\ index = NoIndex /\ passages = <<>>
    /\ top_k = 0 /\ hits = <<>> /\ hit_pos = <<>>
    /\ document = NoDocument /\ doc_chunks = <<>>
    /\ build_called = FALSE /\ build_raised = "None" /\ NoSession

\* match_clauses on a list of one hit: hits holds enhanced_clauses, whose
\* relevance_score is a double, and matched the hits with
\* c.relevance_score > threshold
MatchClausesFloat ==
    /\ op = "init"
    /\ hits' = <<ClauseMatch(retrieved_clauses[1].content,
                             _calculate_enhanced_score_float(query, retrieved_clauses[1]),
                             retrieved_clauses[1].source_location,
                             retrieved_clauses[1].context)>>
    /\ matched' = Filter(hits', LAMBDA c : FLess(FloatOf(threshold), c.relevance_score), 1)
    /\ op' = "match_clauses"
    /\ UNCHANGED <<raised, query, retrieved_clauses, backend, encoder, model, chunks,
                   index, passages, top_k, hit_pos, build_called, build_raised,
                   chunkVars, sessionVars>>

NextFloat == MatchClausesFloat

SpecFloat == InitFloat /\ [][NextFloat]_vars

\* C28: whenever the original relevance_score of a hit is at most 1, its
\* composite score is at most 0.6, so that the cap at 1.0 never takes effect,
\* and a hit whose original relevance_score is at most 0.25 is never returned
\* by match_clauses.  (The double of 0.6 is the largest double below 0.6.)
C28_CompositeAtMostSixTenths ==
    (op = "match_clauses" /\ RLeq(retrieved_clauses[1].relevance_score, One)) =>
        /\ ~FLess(FDiv(6, 10), hits[1].relevance_score)
        /\ RLeq(retrieved_clauses[1].relevance_score, <<1, 4>>) => matched = <<>>

-----------------------------------------------------------------------------
(* SpecInit: the lazy initialization of the two applications, for the      *)
(* requests of several callers.  main_vercel.py serves /hackrx/run with    *)
(* the lexical backend; main_complex.py serves /hackrx/run and             *)
(* /health/detailed with the dense backend.  As in SpecRequest, a handler  *)
(* may be suspended at each await, here at await initialize_system().      *)

\* the callers whose requests are in progress at the same time
MaxCallers == 2

Callers == 1..MaxCallers

\* the endpoints of the application that runs the backend
Endpoints(b) == IF b = "dense" THEN {"/hackrx/run", "/health/detailed"} ELSE {"/hackrx/run"}

\* a request that has entered its handler; completions counts the calls of
\* initialize_system that returned to this caller (ghost)
Call(endpoint, completions) ==
    [endpoint |-> endpoint, pc |-> "handler", status |-> 0, completions |-> completions]

InitLazy ==
    /\ op = "init" /\ raised = "None"
    /\ backend \in {"lite", "dense"} /\ encoder = <<>> /\ model = FALSE
    /\ chunks = <<>> /\ index = NoIndex /\ passages = <<>>
    /\ query = "" /\ top_k = 0 /\ hits = <<>> /\ hit_pos = <<>>
    /\ retrieved_clauses = <<>> /\ matched = <<>>
    /\ document = NoDocument /\ doc_chunks = <<>>
    /\ build_called = FALSE /\ build_raised = "None"
    /\ twin = NoTwin
    /\ requests \in [Callers -> { Call(e, 0) : e \in Endpoints(backend) }]
    /\ _system_initialized = FALSE
    /\ last_analysis = NoAnalysis /\ response = NoResponse

LazyFrame ==
    UNCHANGED <<op, raised, query, retrieved_clauses, matched, backend, encoder, chunks,
                index, passages, top_k, hits, hit_pos, build_called, build_raised,
                chunkVars, twin, last_analysis, response>>

\* if not _system_initialized:
LazyCheck(r) ==
    /\ requests[r].pc = "handler"
    /\ requests' = [requests EXCEPT ![r].pc =
                       IF _system_initialized THEN "ready" ELSE "initialize"]
    /\ UNCHANGED <<model, _system_initialized>>
    /\ LazyFrame

\* the caller after initialize_system raised: process_queries answers 500,
\* detailed_health_check answers 200 with the status "unhealthy"
AfterInitializeRaised(rec) ==
    [rec EXCEPT !.pc = "failed",
                !.status = IF rec.endpoint = "/hackrx/run" THEN 500 ELSE 200]

\* await initialize_system(); _system_initialized = True
LazyInitialize(r) ==
    /\ requests[r].pc = "initialize"
    /\ \/ \* EmbeddingSearchLite.initialize is pass; the dense model loads
          /\ model' = (backend = "dense")
          /\ _system_initialized' = TRUE
          /\ requests' = [requests EXCEPT ![r].pc = "ready",
                                          ![r].completions = @ + 1]
       \/ \* loading the dense model raises; initialize_system raises it again
          /\ backend = "dense"
          /\ UNCHANGED <<model, _system_initialized>>
          /\ requests' = [requests EXCEPT ![r] = AfterInitializeRaised(@)]
    /\ LazyFrame

\* the rest of the handler
LazyReturn(r) ==
    /\ requests[r].pc = "ready"
    /\ requests' = [requests EXCEPT ![r].pc = "done", ![r].status = 200]
    /\ UNCHANGED <<model, _system_initialized>>
    /\ LazyFrame

\* the caller sends its next request
NextCall(r) ==
    /\ requests[r].pc \in {"done", "failed"}
    /\ \E e \in Endpoints(backend) :
          requests' = [requests EXCEPT ![r] = Call(e, requests[r].completions)]
    /\ UNCHANGED <<model, _system_initialized>>
    /\ LazyFrame

NextLazy ==
    \/ \E r \in Callers : LazyCheck(r)
    \/ \E r \in Callers : LazyInitialize(r)
    \/ \E r \in Callers : LazyReturn(r)
    \/ \E r \in Callers : NextCall(r)

SpecInit == InitLazy /\ [][NextLazy]_vars

\* the calls of initialize_system that have returned without raising
RECURSIVE CompletionsUpTo(_)
CompletionsUpTo(r) ==
    IF r = 0 THEN 0 ELSE requests[r].completions + CompletionsUpTo(r - 1)

=============================================================================
